---- MODULE Spec2Model ----
(***************************************************************************)
(* graph-chronicle: a browser dashboard over synthetic dataset-access      *)
(* events.  The module models                                              *)
(*   - the canvas views (ParticleGalaxyFlow, FluidDynamicsFlow,            *)
(*     NeuralNetworkBrain, TopographicalLandscape): their effects, their   *)
(*     animation-frame loop and the per-tick physics;                      *)
(*   - the dashboard (DataJourneyDashboard): playback, filtering, journey  *)
(*     discovery;                                                          *)
(*   - the aggregators (tree builder, time buckets, Sankey flow counter).  *)
(* Lengths are fixed-point numbers, Scale units to the pixel; every        *)
(* floating-point product is truncated toward zero at that resolution.     *)
(***************************************************************************)
EXTENDS Integers, Sequences, FiniteSets, TLC

(***************************************************************************)
(* Bounds of the model.                                                    *)
(***************************************************************************)
MaxTicks == 6
MaxParticles == 2
MaxDataChanges == 1
MaxMouseMoves == 1

\* Days the wall clock advances while a page is open.
MaxDays == 1

(***************************************************************************)
(* Arithmetic.                                                             *)
(***************************************************************************)
Scale == 100

\* JavaScript NaN: the result of 0/0.  Every comparison with it is false.
NaN == -999999999

IsNaN(v) == v = NaN

Abs(v) == IF v < 0 THEN -v ELSE v

Min(a, b) == IF a < b THEN a ELSE b

Max(a, b) == IF a > b THEN a ELSE b

\* v * num / den, truncated toward zero.
MulDiv(v, num, den) ==
  IF v >= 0 THEN (v * num) \div den ELSE -(((-v) * num) \div den)

RECURSIVE SqrtIter(_, _, _)
SqrtIter(n, lo, hi) ==
  IF lo >= hi THEN lo
  ELSE LET mid == (lo + hi + 1) \div 2
       IN IF mid * mid <= n THEN SqrtIter(n, mid, hi) ELSE SqrtIter(n, lo, mid - 1)

\* Math.sqrt, rounded down to the unit.
Sqrt(n) == SqrtIter(n, 0, 46000)

\* Math.sqrt(dx * dx + dy * dy)
Dist(dx, dy) == Sqrt(dx * dx + dy * dy)

\* array.find(n => n.id === id): the first match, or undefined
Find(seq, id) ==
  LET hits == {i \in 1..Len(seq) : seq[i].id = id}
  IN IF hits = {} THEN [id |-> "undefined"]
     ELSE seq[CHOOSE i \in hits : \A j \in hits : i <= j]

\* The distinct values of keys, in order of first appearance (the insertion
\* order of a Map or Set filled by forEach).
RECURSIVE Distinct(_, _)
Distinct(keys, seen) ==
  IF keys = <<>> THEN seen
  ELSE IF \E i \in 1..Len(seen) : seen[i] = Head(keys)
       THEN Distinct(Tail(keys), seen)
       ELSE Distinct(Tail(keys), Append(seen, Head(keys)))

Count(seq, p(_)) == Cardinality({i \in 1..Len(seq) : p(seq[i])})

(***************************************************************************)
(* Access records (DatasetAccess).                                         *)
(***************************************************************************)
Access(i, u, un, ds, dn, ty, at, dep, ts) ==
  [id |-> i, userId |-> u, userName |-> un, datasetId |-> ds, datasetName |-> dn,
   datasetType |-> ty, accessType |-> at, department |-> dep, timestamp |-> ts]

VARIABLES
  \* ---- canvas views ----
  view,            \* the mounted canvas component
  canvasRef,       \* "null": no element; "noctx": getContext fails; "ok"
  rect,            \* canvas.getBoundingClientRect(), in pixels
  mounted,
  data,            \* the data prop of the mounted view
  dirty,           \* state variables set since the effects last ran
  rafPending,      \* ids of the requested, not yet run animation-frame callbacks
  animationRef,    \* animationRef.current (0: undefined)
  closureNodes,    \* the nodes array captured by the running animate closure
  closureLive,     \* whether that array holds the objects of the current state
  nodes,           \* ParticleGalaxyFlow nodes
  particles,       \* ParticleGalaxyFlow flow particles
  fluidParticles,  \* FluidDynamicsFlow particles
  neurons,         \* NeuralNetworkBrain neurons
  synapses,        \* NeuralNetworkBrain synapses
  mouseRef,        \* mouseRef.current
  ticks,           \* animation ticks run so far
  dataChanges,     \* data props passed after the first
  mouseMoves,      \* mousemove events handled so far
  justTicked,      \* the last step was an animation tick
  \* ---- the wall clock ----
  clock,           \* Date.now(), in half hours
  \* ---- DataJourneyDashboard ----
  dashMounted,
  accessData,
  generated,       \* calls of generateMockData so far
  isPlaying,
  playbackSpeed,   \* in halves: 0.5x is 1, 1x is 2, 2x is 4, 5x is 10
  currentTime,     \* in quarters of a percent: 100 is 400
  searchQuery,     \* a sequence of characters
  filters,
  journeyPerspective,
  insights,
  loading,
  pendingCalls,    \* the paths of the discovery calls whose timeout is running
  filteredData,    \* the memoised filteredData
  \* ---- UserJourneyFlow, TimelineCollapsibleTree, SankeyDiagram ----
  flowVariant,     \* which source of UserJourneyFlow is mounted
  flowData,        \* the data prop
  perspective,     \* the perspective prop
  currentHour,
  selectedEntities,
  uniqueEntities,  \* the memoised uniqueEntities
  timeBuckets,     \* the memoised timeBuckets
  treeTime,        \* the time position of the tree
  treeData,        \* the memoised generateTreeData
  sankeyData,      \* the memoised sankeyData
  treeComponent,   \* which source of TimelineCollapsibleTree is mounted
  dataProp,        \* the data prop of the tree, a JavaScript value
  hierarchy,       \* the hierarchy prop of the tree
  parsedData,      \* the memoised parsedData
  treeError,       \* a render of the tree threw a TypeError
  children,        \* d.children of each node of the d3 hierarchy, by path
  _children,       \* d._children of each node of the d3 hierarchy, by path
  checkedOrgs,
  clicked,         \* the path of the node of the last click event
  treeDirty,       \* the tree effect is due to run again
  scrollOffset

canvasVars ==
  <<view, canvasRef, rect, mounted, data, dirty, rafPending, animationRef,
    closureNodes, closureLive, nodes, particles, fluidParticles, neurons,
    synapses, mouseRef, ticks, dataChanges, mouseMoves, justTicked>>

dashVars ==
  <<dashMounted, accessData, generated, isPlaying, playbackSpeed, currentTime,
    searchQuery, filters, journeyPerspective, insights, loading, pendingCalls,
    filteredData>>

treeVars ==
  <<treeComponent, dataProp, hierarchy, parsedData, treeError, children,
    _children, checkedOrgs, clicked, treeDirty>>

flowVars ==
  <<flowVariant, flowData, perspective, currentHour, selectedEntities,
    uniqueEntities, timeBuckets, treeTime, treeData, sankeyData, treeVars,
    scrollOffset>>

vars == <<canvasVars, clock, dashVars, flowVars>>

(***************************************************************************)
(* Math.random(): a call draws the next value of a stream, in hundredths.  *)
(***************************************************************************)
RandomStreams == {<<0, 99, 99, 50>>, <<99, 30, 0, 99, 60>>}

Rnd(s, i) == s[((i - 1) % Len(s)) + 1]

HasId(seq, id) == \E i \in 1..Len(seq) : seq[i].id = id

(***************************************************************************)
(* ParticleGalaxyFlow.                                                     *)
(***************************************************************************)
UserKey(a) == <<"user", a.userId, a.department>>

DatasetKey(a) == <<"dataset", a.datasetId, a.datasetType>>

\* The node keys in the order the setup effect creates the nodes.
RECURSIVE NodeKeys(_)
NodeKeys(d) ==
  IF d = <<>> THEN <<>>
  ELSE <<UserKey(Head(d)), DatasetKey(Head(d))>> \o NodeKeys(Tail(d))

\* accessCounts.get(key)
AccessCount(d, key) ==
  Cardinality({i \in 1..Len(d) : UserKey(d[i]) = key \/ DatasetKey(d[i]) = key})

\* The k-th node the setup effect creates, sized by its access frequency.
GalaxyNode(d, r, s, key, k) ==
  LET count == AccessCount(d, key)
      isUser == key[1] = "user"
  IN [id |-> key,
      type |-> key[1],
      x |-> MulDiv(Rnd(s, 4 * k - 3) * (r.width - 100), Scale, 100) + 50 * Scale,
      y |-> MulDiv(Rnd(s, 4 * k - 2) * (r.height - 100), Scale, 100) + 50 * Scale,
      vx |-> IF isUser THEN (Rnd(s, 4 * k - 1) - 50) * 2
             ELSE MulDiv(Rnd(s, 4 * k - 1) - 50, 1, 2),
      vy |-> IF isUser THEN (Rnd(s, 4 * k) - 50) * 2
             ELSE MulDiv(Rnd(s, 4 * k) - 50, 1, 2),
      radius |-> IF isUser THEN Max(6 * Scale, Min(20 * Scale, 8 * Scale + count * 50))
                 ELSE Max(12 * Scale, Min(30 * Scale, 15 * Scale + count * 80)),
      \* mass, in tenths
      mass |-> IF isUser THEN count + 10 ELSE count * 2 + 30]

IsUserNode(n) == n.type = "user"

IsDatasetNode(n) == n.type = "dataset"

\* allNodes: the user nodes, then the dataset nodes
GalaxyNodes(d, r, s) ==
  LET keys == Distinct(NodeKeys(d), <<>>)
      made == [k \in 1..Len(keys) |-> GalaxyNode(d, r, s, keys[k], k)]
  IN SelectSeq(made, IsUserNode) \o SelectSeq(made, IsDatasetNode)

\* A flow particle leaving userNode for datasetNode.
NewParticle(userNode, datasetNode) ==
  [x |-> userNode.x,
   y |-> userNode.y,
   vx |-> IF IsNaN(userNode.x) \/ IsNaN(datasetNode.x) THEN NaN
          ELSE MulDiv(datasetNode.x - userNode.x, 2, 100),
   vy |-> IF IsNaN(userNode.y) \/ IsNaN(datasetNode.y) THEN NaN
          ELSE MulDiv(datasetNode.y - userNode.y, 2, 100),
   life |-> 100,
   sourceId |-> userNode.id,
   targetId |-> datasetNode.id]

\* initialParticles: one per access of data.slice(0, 50)
GalaxyParticles(d, ns) ==
  [i \in 1..Min(Len(d), 50) |->
     NewParticle(Find(ns, UserKey(d[i])), Find(ns, DatasetKey(d[i])))]

\* One component of the gravitational pull of other on node.
Gravity(node, other, axis) ==
  IF other.id = node.id \/ IsNaN(other.x) THEN 0
  ELSE LET dx == other.x - node.x
           dy == other.y - node.y
           distance == Dist(dx, dy)
       IN IF dx = 0 /\ dy = 0 THEN 0
          ELSE LET force == (10 * node.mass * other.mass) \div Max(1, distance * distance)
               IN MulDiv((IF axis = "x" THEN dx ELSE dy) * force, 1, Max(1, distance))

RECURSIVE SumGravity(_, _, _, _)
SumGravity(node, all, axis, k) ==
  IF k > Len(all) THEN 0
  ELSE Gravity(node, all[k], axis) + SumGravity(node, all, axis, k + 1)

\* One component of the attraction of the pointer, within reach px; the
\* quotient mouseDx / mouseDistance is 0/0 when the pointer is on the body.
MouseForce(node, mouse, axis, reach, divisor) ==
  LET mouseDx == mouse.x - node.x
      mouseDy == mouse.y - node.y
      mouseDistance == Dist(mouseDx, mouseDy)
  IN IF mouseDx = 0 /\ mouseDy = 0 THEN NaN
     ELSE IF mouseDx * mouseDx + mouseDy * mouseDy < (reach * Scale) * (reach * Scale)
          THEN LET mouseForce == MulDiv(reach * Scale - mouseDistance, 1, divisor)
               IN MulDiv((IF axis = "x" THEN mouseDx ELSE mouseDy) * mouseForce,
                         1, Max(1, mouseDistance))
          ELSE 0

\* Boundary collision on one axis: position and velocity after the two tests.
Bounce(p, v, lo, hi, restitution) ==
  LET p1 == IF p < lo THEN lo ELSE p
      v1 == IF p < lo THEN -MulDiv(v, restitution, 100) ELSE v
      p2 == IF p1 > hi THEN hi ELSE p1
      v2 == IF p1 > hi THEN -MulDiv(v1, restitution, 100) ELSE v1
  IN <<p2, v2>>

\* The body of prevNodes.map in animate, for one node.
StepNode(node, all, mouse, r) ==
  IF IsNaN(node.x) THEN node
  ELSE
    LET mx == MouseForce(node, mouse, "x", 100, 2000)
        my == MouseForce(node, mouse, "y", 100, 2000)
    IN IF IsNaN(mx)
       THEN [node EXCEPT !.x = NaN, !.y = NaN, !.vx = NaN, !.vy = NaN]
       ELSE
         LET fx == SumGravity(node, all, "x", 1) + mx
             fy == SumGravity(node, all, "y", 1) + my
             vx == MulDiv(node.vx + fx, 99, 100)
             vy == MulDiv(node.vy + fy, 99, 100)
             bx == Bounce(node.x + vx, vx, node.radius,
                          r.width * Scale - node.radius, 80)
             by == Bounce(node.y + vy, vy, node.radius,
                          r.height * Scale - node.radius, 80)
         IN [node EXCEPT !.x = bx[1], !.vx = bx[2], !.y = by[1], !.vy = by[2]]

\* prevNodes.map(...): the nodes are updated in place, one after the other,
\* so a node sees the new position of the nodes before it.
RECURSIVE StepNodes(_, _, _, _)
StepNodes(all, mouse, r, k) ==
  IF k > Len(all) THEN all
  ELSE StepNodes([all EXCEPT ![k] = StepNode(all[k], all, mouse, r)], mouse, r, k + 1)

\* The body of prevParticles.filter in animate: the particle after the tick.
\* targets is the nodes array the animate closure holds.
StepParticle(particle, targets) ==
  LET aged == [particle EXCEPT !.life = particle.life - 1]
  IN IF ~HasId(targets, particle.targetId) THEN aged
     ELSE
       LET targetNode == Find(targets, particle.targetId)
       IN IF IsNaN(targetNode.x) \/ IsNaN(particle.x) \/ IsNaN(particle.vx) THEN aged
          ELSE
            LET dx == targetNode.x - particle.x
                dy == targetNode.y - particle.y
                distance == Dist(dx, dy)
            IN IF dx * dx + dy * dy > (5 * Scale) * (5 * Scale)
               THEN LET vx == particle.vx + MulDiv(dx * 10, 1, distance)
                        vy == particle.vy + MulDiv(dy * 10, 1, distance)
                    IN [aged EXCEPT !.vx = vx, !.vy = vy,
                                    !.x = particle.x + vx, !.y = particle.y + vy]
               ELSE aged

Alive(particle) == particle.life > 0

StepParticles(ps, targets) ==
  SelectSeq([i \in 1..Len(ps) |-> StepParticle(ps[i], targets)], Alive)

(***************************************************************************)
(* FluidDynamicsFlow.                                                      *)
(***************************************************************************)
Departments(d) == Distinct([i \in 1..Len(d) |-> d[i].department], <<>>)

\* particleCount of a department
FluidCount(d, dept) ==
  Min(2 * Cardinality({i \in 1..Len(d) : d[i].department = dept}), 100)

\* The i-th particle of the department at deptIndex (counted from 0); base
\* is the number of random draws made before it.
FluidParticle(d, r, s, dept, deptIndex, base) ==
  LET inletY == MulDiv(r.height * Scale * (2 * deptIndex + 1), 1, 2 * Len(Departments(d)))
  IN [department |-> dept,
      x |-> 10 * Scale + MulDiv(Rnd(s, base + 1) * 50, Scale, 100),
      y |-> inletY - 20 * Scale + MulDiv(Rnd(s, base + 2) * 40, Scale, 100),
      vx |-> Scale + MulDiv(Rnd(s, base + 3) * 2, Scale, 100),
      vy |-> MulDiv(Rnd(s, base + 4) - 50, 1, 2),
      \* density, in hundredths
      density |-> 80 + MulDiv(Rnd(s, base + 6) * 40, 1, 100)]

RECURSIVE FluidSetupFrom(_, _, _, _, _)
FluidSetupFrom(d, r, s, k, made) ==
  LET depts == Departments(d)
  IN IF k > Len(depts) THEN made
     ELSE FluidSetupFrom(d, r, s, k + 1,
            made \o [i \in 1..FluidCount(d, depts[k]) |->
                       FluidParticle(d, r, s, depts[k], k - 1,
                                     6 * (Len(made) + i - 1))])

\* fluidParticles of the setup effect
FluidSetup(d, r, s) == FluidSetupFrom(d, r, s, 1, <<>>)

\* The pressure force (repulsion and viscosity) of the particle at j on the
\* particle at k, one component.
PressureForce(all, k, j, axis) ==
  IF j = k THEN 0
  ELSE LET particle == all[k]
           other == all[j]
           dx == other.x - particle.x
           dy == other.y - particle.y
           distance == Dist(dx, dy)
       IN IF dx * dx + dy * dy < (15 * Scale) * (15 * Scale) /\ ~(dx = 0 /\ dy = 0)
          THEN LET repulsionForce == MulDiv(15 * Scale - distance, 1, 150)
                   d1 == IF axis = "x" THEN dx ELSE dy
                   dv == IF axis = "x" THEN other.vx - particle.vx
                         ELSE other.vy - particle.vy
               IN MulDiv(dv, 2, 100) - MulDiv(d1 * repulsionForce, 1, Max(1, distance))
          ELSE 0

RECURSIVE SumPressure(_, _, _, _)
SumPressure(all, k, axis, j) ==
  IF j > Len(all) THEN 0
  ELSE PressureForce(all, k, j, axis) + SumPressure(all, k, axis, j + 1)

\* Boundary conditions: flow out the right, wrap vertically.
FluidWrapX(x, r) == IF x > (r.width + 10) * Scale THEN -10 * Scale ELSE x

FluidWrapY(y, r) ==
  LET y1 == IF y < 0 THEN r.height * Scale ELSE y
  IN IF y1 > r.height * Scale THEN 0 ELSE y1

\* The body of prevParticles.map in animate, for the particle at k; t1 and t2
\* are the two random draws of the turbulence.
StepFluid(all, k, r, t1, t2) ==
  LET particle == all[k]
      centerY == MulDiv(r.height * Scale, 1, 2)
      inMixing == /\ 10 * particle.x > 3 * r.width * Scale
                  /\ 10 * particle.x < 7 * r.width * Scale
                  /\ Abs(particle.y - centerY) < 50 * Scale
      turbX == IF inMixing THEN MulDiv((t1 - 50) * 5, 1, 1000) ELSE 0
      turbY == IF inMixing THEN MulDiv((t2 - 50) * 5, 1, 1000) ELSE 0
      gravity == 1
      buoyancy == IF particle.density < 100
                  THEN -MulDiv(gravity * (100 - particle.density), 1, 100) ELSE 0
      fx == 2 + SumPressure(all, k, "x", 1) + turbX
      fy == MulDiv((centerY - particle.y) * 5, 1, 10000)
            + SumPressure(all, k, "y", 1) + turbY + gravity + buoyancy
      vx == MulDiv(particle.vx + fx, 98, 100)
      vy == MulDiv(particle.vy + fy, 98, 100)
  IN [particle EXCEPT !.vx = vx, !.vy = vy,
                      !.x = FluidWrapX(particle.x + vx, r),
                      !.y = FluidWrapY(particle.y + vy, r)]

RECURSIVE StepFluids(_, _, _, _, _)
StepFluids(all, r, t1, t2, k) ==
  IF k > Len(all) THEN all
  ELSE StepFluids([all EXCEPT ![k] = StepFluid(all, k, r, t1, t2)], r, t1, t2, k + 1)

(***************************************************************************)
(* NeuralNetworkBrain.                                                     *)
(***************************************************************************)
\* <<cos, sin>> of the angle Math.random() * 2 PI, in hundredths, taken at
\* the quarter turn at or below it.
CosSin(rnd) ==
  IF rnd < 25 THEN <<100, 0>>
  ELSE IF rnd < 50 THEN <<0, 100>>
       ELSE IF rnd < 75 THEN <<-100, 0>> ELSE <<0, -100>>

\* The k-th neuron the setup effect creates.
Neuron(d, r, s, key, k) ==
  LET count == AccessCount(d, key)
      isUser == key[1] = "user"
      cs == CosSin(Rnd(s, 4 * k - 3))
      radius == IF isUser THEN 100 * Scale + MulDiv(Rnd(s, 4 * k - 2) * 150, Scale, 100)
                ELSE 80 * Scale + MulDiv(Rnd(s, 4 * k - 2) * 120, Scale, 100)
      centerX == MulDiv(r.width * Scale, IF isUser THEN 3 ELSE 7, 10)
      centerY == MulDiv(r.height * Scale, 1, 2)
  IN [id |-> key,
      type |-> key[1],
      x |-> centerX + MulDiv(cs[1] * radius, 1, 100),
      y |-> centerY + MulDiv(cs[2] * radius, IF isUser THEN 7 ELSE 8, 1000),
      vx |-> IF isUser THEN MulDiv(Rnd(s, 4 * k - 1) - 50, 1, 2)
             ELSE MulDiv((Rnd(s, 4 * k - 1) - 50) * 3, 1, 10),
      vy |-> IF isUser THEN MulDiv(Rnd(s, 4 * k) - 50, 1, 2)
             ELSE MulDiv((Rnd(s, 4 * k) - 50) * 3, 1, 10),
      radius |-> IF isUser THEN Max(6 * Scale, Min(16 * Scale, 8 * Scale + count * 40))
                 ELSE Max(10 * Scale, Min(20 * Scale, 12 * Scale + count * 50))]

\* allNeurons: the user neurons, then the dataset neurons
Neurons(d, r, s) ==
  LET keys == Distinct(NodeKeys(d), <<>>)
      made == [k \in 1..Len(keys) |-> Neuron(d, r, s, keys[k], k)]
  IN SelectSeq(made, IsUserNode) \o SelectSeq(made, IsDatasetNode)

\* synapseMap: one synapse per user-dataset pair, its strength the number of
\* accesses of the pair.
Synapses(d) ==
  LET pairs == Distinct([i \in 1..Len(d) |-> <<UserKey(d[i]), DatasetKey(d[i])>>], <<>>)
  IN [k \in 1..Len(pairs) |->
        [id |-> pairs[k], source |-> pairs[k][1], target |-> pairs[k][2],
         strength |-> Cardinality({i \in 1..Len(d) :
                         <<UserKey(d[i]), DatasetKey(d[i])>> = pairs[k]})]]

\* One component of the repulsion of other on neuron.
Repulsion(neuron, other, axis) ==
  IF other.id = neuron.id \/ IsNaN(other.x) THEN 0
  ELSE LET odx == other.x - neuron.x
           ody == other.y - neuron.y
           odist == Dist(odx, ody)
       IN IF ~(odx = 0 /\ ody = 0) /\ odx * odx + ody * ody < (100 * Scale) * (100 * Scale)
          THEN -MulDiv((IF axis = "x" THEN odx ELSE ody)
                          * MulDiv(100 * Scale - odist, 1, 5000),
                       1, Max(1, odist))
          ELSE 0

RECURSIVE SumRepulsion(_, _, _, _)
SumRepulsion(neuron, all, axis, k) ==
  IF k > Len(all) THEN 0
  ELSE Repulsion(neuron, all[k], axis) + SumRepulsion(neuron, all, axis, k + 1)

\* The movement part of prevNeurons.map in animate, for one neuron.
StepNeuron(neuron, all, mouse, r) ==
  IF IsNaN(neuron.x) THEN neuron
  ELSE
    LET mx == MouseForce(neuron, mouse, "x", 80, 1000)
        my == MouseForce(neuron, mouse, "y", 80, 1000)
        targetX == MulDiv(r.width * Scale, IF neuron.type = "user" THEN 3 ELSE 7, 10)
        targetY == MulDiv(r.height * Scale, 1, 2)
        dx == targetX - neuron.x
        dy == targetY - neuron.y
        distance == Max(1, Dist(dx, dy))
    IN IF IsNaN(mx)
       THEN [neuron EXCEPT !.x = NaN, !.y = NaN, !.vx = NaN, !.vy = NaN]
       ELSE
         LET fx == MulDiv(dx * 2, 1, distance) + SumRepulsion(neuron, all, "x", 1) + mx
             fy == MulDiv(dy * 2, 1, distance) + SumRepulsion(neuron, all, "y", 1) + my
             vx == MulDiv(neuron.vx + fx, 95, 100)
             vy == MulDiv(neuron.vy + fy, 95, 100)
             margin == neuron.radius
             bx == Bounce(neuron.x + vx, vx, margin, r.width * Scale - margin, 50)
             by == Bounce(neuron.y + vy, vy, margin, r.height * Scale - margin, 50)
         IN [neuron EXCEPT !.x = bx[1], !.vx = bx[2], !.y = by[1], !.vy = by[2]]

RECURSIVE StepNeurons(_, _, _, _)
StepNeurons(all, mouse, r, k) ==
  IF k > Len(all) THEN all
  ELSE StepNeurons([all EXCEPT ![k] = StepNeuron(all[k], all, mouse, r)], mouse, r, k + 1)

(***************************************************************************)
(* The canvas views: effects and the animation-frame loop.                 *)
(***************************************************************************)
Views == {"galaxy", "fluid", "brain", "topo"}

Rects == {[width |-> 64, height |-> 160]}

A1 == Access(1, "user_0", "alice.johnson", "dataset_0", "customer_data",
             "table", "read", "Engineering", 0)

A2 == Access(2, "user_1", "bob.smith", "dataset_1", "sales_reports",
             "file", "write", "Sales", 0)

\* The data props tried for the animation loop, and for the physics.
LoopData == {<<>>, <<A1>>}

CanvasData == LoopData \cup {<<A1, A2>>}

\* The pointer positions tried, in canvas coordinates.
MousePoints ==
  {[x |-> 30 * Scale, y |-> 70 * Scale], [x |-> 12 * Scale, y |-> 150 * Scale]}

\* The dependency arrays of the animation effects.
AnimDeps(v) ==
  CASE v = "galaxy" -> {"nodes", "data"}
    [] v = "fluid" -> {"particles"}
    [] v = "brain" -> {"neurons", "synapses", "data"}
    [] v = "topo" -> {"data"}

\* requestAnimationFrame returns a handle no pending callback has.
NewHandle(pending) == CHOOSE n \in 1..(Cardinality(pending) + 1) : n \notin pending

\* A cleanup that leaves the requested frame pending.
CleanupKeepsFrame(pending, ref) == pending

\* The cleanup of the animation effect:
\* if (animationRef.current) cancelAnimationFrame(animationRef.current)
Cleanup(pending, ref) == IF ref # 0 THEN pending \ {ref} ELSE pending

\* The animation effect, after the cleanup of its previous run: it returns at
\* once without a canvas or a context, and requests a frame otherwise.
\* (TopographicalLandscape draws once before the request.)
AnimEffect(pending, ref) ==
  IF canvasRef # "ok" THEN <<pending, ref>>
  ELSE LET cleaned == Cleanup(pending, ref)
           handle == NewHandle(cleaned)
       IN <<cleaned \cup {handle}, handle>>

\* A setup effect that does not test the canvas and its context.
SetupRunsUnchecked(v, d) == v # "topo" /\ d # <<>>

\* Whether the setup effect of the view gets past its early returns.
SetupRuns(v, d) == v # "topo" /\ d # <<>> /\ canvasRef = "ok"

\* The setup effect, run for data d with the random stream s.
SetupEffect(d, s) ==
  IF SetupRuns(view, d)
  THEN CASE view = "galaxy" ->
              /\ nodes' = GalaxyNodes(d, rect, s)
              /\ particles' = GalaxyParticles(d, GalaxyNodes(d, rect, s))
              /\ dirty' = {"nodes", "particles"}
              /\ UNCHANGED <<fluidParticles, neurons, synapses>>
         [] view = "fluid" ->
              /\ fluidParticles' = FluidSetup(d, rect, s)
              /\ dirty' = {"particles"}
              /\ UNCHANGED <<nodes, particles, neurons, synapses>>
         [] view = "brain" ->
              /\ neurons' = Neurons(d, rect, s)
              /\ synapses' = Synapses(d)
              /\ dirty' = {"neurons", "synapses"}
              /\ UNCHANGED <<nodes, particles, fluidParticles>>
  ELSE /\ dirty' = {}
       /\ UNCHANGED <<nodes, particles, fluidParticles, neurons, synapses>>

\* The first render: every effect runs.  The animate closure holds the
\* nodes of this render, which the setup effect has just replaced.
Mount ==
  /\ ~mounted
  /\ ticks = 0
  /\ mounted' = TRUE
  /\ \E s \in RandomStreams : SetupEffect(data, s)
  /\ LET e == AnimEffect(rafPending, animationRef)
     IN rafPending' = e[1] /\ animationRef' = e[2]
  /\ closureNodes' = nodes
  /\ closureLive' = ~SetupRuns(view, data)
  /\ justTicked' = FALSE
  /\ UNCHANGED <<view, canvasRef, rect, data, mouseRef, ticks, dataChanges, mouseMoves>>
  /\ UNCHANGED <<clock, dashVars, flowVars>>

\* The parent passes a new data array: the setup effect runs, and the
\* animation effect runs again when data is one of its dependencies.
DataChange(d) ==
  /\ mounted
  /\ dataChanges < MaxDataChanges
  /\ dataChanges' = dataChanges + 1
  /\ data' = d
  /\ \E s \in RandomStreams : SetupEffect(d, s)
  /\ IF "data" \in AnimDeps(view) \/ dirty \cap AnimDeps(view) # {}
     THEN /\ LET e == AnimEffect(rafPending, animationRef)
             IN rafPending' = e[1] /\ animationRef' = e[2]
          /\ closureNodes' = nodes
          /\ closureLive' = ~SetupRuns(view, d)
     ELSE UNCHANGED <<rafPending, animationRef, closureNodes, closureLive>>
  /\ justTicked' = FALSE
  /\ UNCHANGED <<view, canvasRef, rect, mounted, mouseRef, ticks, mouseMoves>>
  /\ UNCHANGED <<clock, dashVars, flowVars>>

\* The render that follows a state update: the animation effect runs again
\* when one of its dependencies was set.
Render ==
  /\ mounted
  /\ dirty # {}
  /\ dirty' = {}
  /\ IF dirty \cap AnimDeps(view) # {}
     THEN /\ LET e == AnimEffect(rafPending, animationRef)
             IN rafPending' = e[1] /\ animationRef' = e[2]
          /\ closureNodes' = nodes
          /\ closureLive' = TRUE
     ELSE UNCHANGED <<rafPending, animationRef, closureNodes, closureLive>>
  /\ justTicked' = FALSE
  /\ UNCHANGED <<view, canvasRef, rect, mounted, data, nodes, particles,
                 fluidParticles, neurons, synapses, mouseRef, ticks,
                 dataChanges, mouseMoves>>
  /\ UNCHANGED <<clock, dashVars, flowVars>>

\* handleMouseMove, registered when the canvas element exists.
MouseMove(p) ==
  /\ mounted
  /\ canvasRef # "null"
  /\ view \in {"galaxy", "brain"}
  /\ mouseMoves < MaxMouseMoves
  /\ mouseMoves' = mouseMoves + 1
  /\ mouseRef' = p
  /\ justTicked' = FALSE
  /\ UNCHANGED <<view, canvasRef, rect, mounted, data, dirty, rafPending,
                 animationRef, closureNodes, closureLive, nodes, particles,
                 fluidParticles, neurons, synapses, ticks, dataChanges>>
  /\ UNCHANGED <<clock, dashVars, flowVars>>

\* The state updates of one run of animate.
Animate ==
  CASE view = "galaxy" ->
         LET stepped == StepNodes(nodes, mouseRef, rect, 1)
             targets == IF closureLive THEN stepped ELSE closureNodes
             moved == StepParticles(particles, targets)
         IN /\ nodes' = stepped
            /\ closureNodes' = targets
            /\ \/ particles' = moved
               \/ \E i \in 1..Len(data) :
                    /\ Len(moved) < MaxParticles
                    /\ HasId(targets, UserKey(data[i]))
                    /\ HasId(targets, DatasetKey(data[i]))
                    /\ particles' = Append(moved,
                         NewParticle(Find(targets, UserKey(data[i])),
                                     Find(targets, DatasetKey(data[i]))))
            /\ dirty' = dirty \cup {"nodes", "particles"}
            /\ UNCHANGED <<fluidParticles, neurons, synapses>>
    [] view = "fluid" ->
         /\ \E t1, t2 \in {0, 99} :
              fluidParticles' = StepFluids(fluidParticles, rect, t1, t2, 1)
         /\ dirty' = dirty \cup {"particles"}
         /\ UNCHANGED <<nodes, particles, neurons, synapses, closureNodes>>
    [] view = "brain" ->
         /\ neurons' = StepNeurons(neurons, mouseRef, rect, 1)
         /\ dirty' = dirty \cup {"neurons", "synapses"}
         /\ UNCHANGED <<nodes, particles, fluidParticles, synapses, closureNodes>>
    [] view = "topo" ->
         UNCHANGED <<nodes, particles, fluidParticles, neurons, synapses,
                     closureNodes, dirty>>

\* A requested animation frame fires: animate runs and requests the next.
Tick(handle) ==
  /\ handle \in rafPending
  /\ ticks < MaxTicks
  /\ Animate
  /\ LET rest == rafPending \ {handle}
         next == NewHandle(rest)
     IN rafPending' = rest \cup {next} /\ animationRef' = next
  /\ ticks' = ticks + 1
  /\ justTicked' = TRUE
  /\ UNCHANGED <<view, canvasRef, rect, mounted, data, closureLive, mouseRef,
                 dataChanges, mouseMoves>>
  /\ UNCHANGED <<clock, dashVars, flowVars>>

\* The view unmounts: the cleanup of the animation effect runs, if the
\* effect got past its early returns.
Unmount ==
  /\ mounted
  /\ mounted' = FALSE
  /\ rafPending' = IF canvasRef = "ok" THEN Cleanup(rafPending, animationRef)
                   ELSE rafPending
  /\ justTicked' = FALSE
  /\ UNCHANGED <<view, canvasRef, rect, data, dirty, animationRef, closureNodes,
                 closureLive, nodes, particles, fluidParticles, neurons,
                 synapses, mouseRef, ticks, dataChanges, mouseMoves>>
  /\ UNCHANGED <<clock, dashVars, flowVars>>

(***************************************************************************)
(* DataJourneyDashboard.  Both sources of the component hold the same      *)
(* state, effects and handlers; the first renders the perspective Select   *)
(* and the second the SearchPanel and JourneyInsights.                     *)
(***************************************************************************)
\* The clock counts half hours; a timeline position counts quarters of a
\* percent, the smallest playback step (0.5x speed * 0.5).
HourTicks == 2

DayTicks == 24 * HourTicks

Quarters == 4

Clock0 == 200 * DayTicks

HourOf(t) == (t \div HourTicks) % 24

\* The first instant of the day of t.
DayStart(t) == t - (t % DayTicks)

\* The arrays generateMockData draws from.
Users == <<"alice.johnson", "bob.smith", "carol.davis", "david.brown", "emma.wilson">>

Datasets ==
  <<"customer_data", "sales_reports", "inventory_db", "analytics_warehouse",
    "user_profiles">>

DepartmentNames == <<"Engineering", "Analytics", "Sales", "Marketing", "Operations">>

DatasetTypes == <<"table", "file", "api", "stream">>

AccessTypes == <<"read", "write", "execute">>

UserIds == <<"user_0", "user_1", "user_2", "user_3", "user_4">>

DatasetIds == <<"dataset_0", "dataset_1", "dataset_2", "dataset_3", "dataset_4">>

\* One record of generateMockData.  pick holds Math.floor(Math.random() * n)
\* of each field, and age the Math.random() * 30 days of the timestamp.
MockAccess(i, pick, now) ==
  Access(i, UserIds[pick.userId + 1], Users[pick.userName + 1],
         DatasetIds[pick.datasetId + 1], Datasets[pick.datasetName + 1],
         DatasetTypes[pick.datasetType + 1], AccessTypes[pick.accessType + 1],
         DepartmentNames[pick.department + 1], now - pick.age)

generateMockData(now, picks) ==
  [i \in 1..Len(picks) |-> MockAccess(i - 1, picks[i], now)]

Pick(u, un, ds, dn, ty, at, dep, age) ==
  [userId |-> u, userName |-> un, datasetId |-> ds, datasetName |-> dn,
   datasetType |-> ty, accessType |-> at, department |-> dep, age |-> age]

\* The random draws tried for generateMockData: ages of 0, 10 and 29 days,
\* and of 1 and 20 days and 12 hours.
MockDraws ==
  { << Pick(0, 0, 0, 0, 0, 0, 0, 0),
       Pick(1, 1, 1, 1, 1, 1, 2, 10 * DayTicks),
       Pick(0, 0, 1, 1, 2, 0, 0, 29 * DayTicks) >>,
    << Pick(2, 2, 2, 2, 3, 2, 3, DayTicks),
       Pick(1, 1, 0, 0, 0, 0, 2, 20 * DayTicks + 12 * HourTicks) >> }

\* The characters of the names, for String.includes.
Chars(name) ==
  CASE name = "alice.johnson" ->
         <<"a", "l", "i", "c", "e", ".", "j", "o", "h", "n", "s", "o", "n">>
    [] name = "bob.smith" -> <<"b", "o", "b", ".", "s", "m", "i", "t", "h">>
    [] name = "carol.davis" -> <<"c", "a", "r", "o", "l", ".", "d", "a", "v", "i", "s">>
    [] name = "david.brown" -> <<"d", "a", "v", "i", "d", ".", "b", "r", "o", "w", "n">>
    [] name = "emma.wilson" -> <<"e", "m", "m", "a", ".", "w", "i", "l", "s", "o", "n">>
    [] name = "customer_data" ->
         <<"c", "u", "s", "t", "o", "m", "e", "r", "_", "d", "a", "t", "a">>
    [] name = "sales_reports" ->
         <<"s", "a", "l", "e", "s", "_", "r", "e", "p", "o", "r", "t", "s">>
    [] name = "inventory_db" ->
         <<"i", "n", "v", "e", "n", "t", "o", "r", "y", "_", "d", "b">>
    [] name = "analytics_warehouse" ->
         <<"a", "n", "a", "l", "y", "t", "i", "c", "s", "_", "w", "a", "r", "e", "h",
           "o", "u", "s", "e">>
    [] name = "user_profiles" ->
         <<"u", "s", "e", "r", "_", "p", "r", "o", "f", "i", "l", "e", "s">>

\* String.toLowerCase, on the letters the queries use.
LowerChar(c) ==
  CASE c = "A" -> "a" [] c = "B" -> "b" [] c = "L" -> "l" [] c = "O" -> "o"
    [] c = "S" -> "s" [] OTHER -> c

toLowerCase(str) == [i \in 1..Len(str) |-> LowerChar(str[i])]

\* String.includes
includes(str, sub) ==
  \E i \in 1..(Len(str) - Len(sub) + 1) : SubSeq(str, i, i + Len(sub) - 1) = sub

\* The search inputs tried: none, "BOB", "sales", "Al".
Queries == {<<>>, <<"B", "O", "B">>, <<"s", "a", "l", "e", "s">>, <<"A", "l">>}

\* timeMatch of filteredData: currentTime === 0 ||
\*   timestamp <= Date.now() - (100 - currentTime) * 24 * 60 * 60 * 1000
timeMatch(access, ct, now) ==
  \/ ct = 0
  \/ access.timestamp * Quarters <= now * Quarters - (100 * Quarters - ct) * DayTicks

searchMatch(access, query) ==
  \/ query = <<>>
  \/ includes(toLowerCase(Chars(access.userName)), toLowerCase(query))
  \/ includes(toLowerCase(Chars(access.datasetName)), toLowerCase(query))

\* filteredData evaluated at clock time now (its filters are not read).
FilteredData(records, ct, query, now) ==
  SelectSeq(records, LAMBDA access : timeMatch(access, ct, now) /\ searchMatch(access, query))

\* The useMemo of filteredData: evaluated again when a dependency changed.
FilteredMemo(records, ct, query) ==
  IF <<records, ct, query>> = <<accessData, currentTime, searchQuery>>
  THEN filteredData
  ELSE FilteredData(records, ct, query, clock)

NoFilters ==
  [departments |-> <<>>, datasetTypes |-> <<>>, accessTypes |-> <<>>,
   timeWindow |-> "day"]

Without(list, value) == SelectSeq(list, LAMBDA v : v # value)

Contains(list, value) == \E i \in 1..Len(list) : list[i] = value

\* SearchPanel.handleFilterChange
handleFilterChange(f, category, value, checked) ==
  CASE category = "departments" ->
         [f EXCEPT !.departments = IF checked THEN Append(@, value) ELSE Without(@, value)]
    [] category = "datasetTypes" ->
         [f EXCEPT !.datasetTypes = IF checked THEN Append(@, value) ELSE Without(@, value)]
    [] category = "accessTypes" ->
         [f EXCEPT !.accessTypes = IF checked THEN Append(@, value) ELSE Without(@, value)]
    [] OTHER -> f

\* SearchPanel.filterOptions: the distinct values of the unfiltered data.
filterOptions(records) ==
  [departments |-> Distinct([i \in 1..Len(records) |-> records[i].department], <<>>),
   datasetTypes |-> Distinct([i \in 1..Len(records) |-> records[i].datasetType], <<>>),
   accessTypes |-> Distinct([i \in 1..Len(records) |-> records[i].accessType], <<>>)]

Range(seq) == {seq[i] : i \in 1..Len(seq)}

Journey(id, path) == [id |-> id, path |-> path]

mockInsights ==
  << Journey("journey_1", <<"customer_data", "analytics_warehouse", "sales_reports">>),
     Journey("journey_2", <<"user_profiles", "customer_data", "inventory_db">>) >>

\* A discovery whose result holds the path it was asked about.
JourneyInsightOfPath(selectedPath) ==
  <<Journey("journey_1", selectedPath)>> \o Tail(mockInsights)

\* The list handleJourneyInsight passes to setInsights for selectedPath.
JourneyInsight(selectedPath) == mockInsights

\* The paths JourneyInsights.handleDiscover passes on: split at commas,
\* trimmed, empty parts dropped.
Paths == {<<>>, <<"inventory_db">>, <<"customer_data", "user_profiles">>}

SliderValues == {0, 1, 50, 80, 99, 100}

Speeds == {1, 2, 4, 10}

\* The dashboard before its first render.
DashIdle ==
  /\ dashMounted = FALSE
  /\ accessData = <<>>
  /\ generated = 0
  /\ isPlaying = FALSE
  /\ playbackSpeed = 2
  /\ currentTime = 0
  /\ searchQuery = <<>>
  /\ filters = NoFilters
  /\ journeyPerspective = "user-journey"
  /\ insights = <<>>
  /\ loading = FALSE
  /\ pendingCalls = <<>>
  /\ filteredData = <<>>

\* The first render and the mount effect: setAccessData(generateMockData()).
DashMount(picks) ==
  /\ ~dashMounted
  /\ dashMounted' = TRUE
  /\ accessData' = generateMockData(clock, picks)
  /\ generated' = generated + 1
  /\ filteredData' = FilteredMemo(accessData', currentTime, searchQuery)
  /\ UNCHANGED <<isPlaying, playbackSpeed, currentTime, searchQuery, filters,
                 journeyPerspective, insights, loading, pendingCalls>>
  /\ UNCHANGED <<canvasVars, clock, flowVars>>

handlePlayPause ==
  /\ dashMounted
  /\ isPlaying' = ~isPlaying
  /\ UNCHANGED <<dashMounted, accessData, generated, playbackSpeed, currentTime,
                 searchQuery, filters, journeyPerspective, insights, loading,
                 pendingCalls, filteredData>>
  /\ UNCHANGED <<canvasVars, clock, flowVars>>

\* A reset that also draws the access records again.
handleResetRegenerating ==
  /\ dashMounted
  /\ currentTime' = 0
  /\ isPlaying' = FALSE
  /\ \E picks \in MockDraws : accessData' = generateMockData(clock, picks)
  /\ generated' = generated + 1
  /\ filteredData' = FilteredMemo(accessData', 0, searchQuery)
  /\ UNCHANGED <<dashMounted, playbackSpeed, searchQuery, filters,
                 journeyPerspective, insights, loading, pendingCalls>>
  /\ UNCHANGED <<canvasVars, clock, flowVars>>

handleReset ==
  /\ dashMounted
  /\ currentTime' = 0
  /\ isPlaying' = FALSE
  /\ filteredData' = FilteredMemo(accessData, 0, searchQuery)
  /\ UNCHANGED <<dashMounted, accessData, generated, playbackSpeed, searchQuery,
                 filters, journeyPerspective, insights, loading, pendingCalls>>
  /\ UNCHANGED <<canvasVars, clock, flowVars>>

\* A tick that holds the position at 100 and keeps playing.
PlaybackTickForever ==
  /\ dashMounted
  /\ isPlaying
  /\ currentTime' = IF currentTime >= 100 * Quarters THEN 100 * Quarters
                    ELSE currentTime + playbackSpeed
  /\ isPlaying' = isPlaying
  /\ filteredData' = FilteredMemo(accessData, currentTime', searchQuery)
  /\ UNCHANGED <<dashMounted, accessData, generated, playbackSpeed, searchQuery,
                 filters, journeyPerspective, insights, loading, pendingCalls>>
  /\ UNCHANGED <<canvasVars, clock, flowVars>>

\* The interval of the playback effect fires; it is set while isPlaying.
\*   prev >= 100 ? (setIsPlaying(false), 100) : prev + playbackSpeed * 0.5
PlaybackTick ==
  /\ dashMounted
  /\ isPlaying
  /\ IF currentTime >= 100 * Quarters
     THEN /\ currentTime' = 100 * Quarters
          /\ isPlaying' = FALSE
     ELSE /\ currentTime' = currentTime + playbackSpeed
          /\ isPlaying' = isPlaying
  /\ filteredData' = FilteredMemo(accessData, currentTime', searchQuery)
  /\ UNCHANGED <<dashMounted, accessData, generated, playbackSpeed, searchQuery,
                 filters, journeyPerspective, insights, loading, pendingCalls>>
  /\ UNCHANGED <<canvasVars, clock, flowVars>>

\* The timeline Slider: onValueChange={([value]) => setCurrentTime(value)}
SliderMove(value) ==
  /\ dashMounted
  /\ currentTime' = value * Quarters
  /\ filteredData' = FilteredMemo(accessData, currentTime', searchQuery)
  /\ UNCHANGED <<dashMounted, accessData, generated, isPlaying, playbackSpeed,
                 searchQuery, filters, journeyPerspective, insights, loading,
                 pendingCalls>>
  /\ UNCHANGED <<canvasVars, clock, flowVars>>

\* The speed Select.
setPlaybackSpeed(speed) ==
  /\ dashMounted
  /\ playbackSpeed' = speed
  /\ UNCHANGED <<dashMounted, accessData, generated, isPlaying, currentTime,
                 searchQuery, filters, journeyPerspective, insights, loading,
                 pendingCalls, filteredData>>
  /\ UNCHANGED <<canvasVars, clock, flowVars>>

\* The search Input of SearchPanel.
setSearchQuery(query) ==
  /\ dashMounted
  /\ searchQuery' = query
  /\ filteredData' = FilteredMemo(accessData, currentTime, query)
  /\ UNCHANGED <<dashMounted, accessData, generated, isPlaying, playbackSpeed,
                 currentTime, filters, journeyPerspective, insights, loading,
                 pendingCalls>>
  /\ UNCHANGED <<canvasVars, clock, flowVars>>

\* The perspective Select.
setJourneyPerspective(p) ==
  /\ dashMounted
  /\ journeyPerspective' = p
  /\ UNCHANGED <<dashMounted, accessData, generated, isPlaying, playbackSpeed,
                 currentTime, searchQuery, filters, insights, loading,
                 pendingCalls, filteredData>>
  /\ UNCHANGED <<canvasVars, clock, flowVars>>

\* A filter checkbox or badge of SearchPanel is clicked.
FilterClick(category, value) ==
  /\ dashMounted
  /\ Contains(filterOptions(accessData)[category], value)
  /\ filters' = handleFilterChange(filters, category, value,
                                   ~Contains(filters[category], value))
  /\ UNCHANGED <<dashMounted, accessData, generated, isPlaying, playbackSpeed,
                 currentTime, searchQuery, journeyPerspective, insights, loading,
                 pendingCalls, filteredData>>
  /\ UNCHANGED <<canvasVars, clock, flowVars>>

\* SearchPanel.clearFilters
clearFilters ==
  /\ dashMounted
  /\ filters' = NoFilters
  /\ UNCHANGED <<dashMounted, accessData, generated, isPlaying, playbackSpeed,
                 currentTime, searchQuery, journeyPerspective, insights, loading,
                 pendingCalls, filteredData>>
  /\ UNCHANGED <<canvasVars, clock, flowVars>>

\* The time-window Select of SearchPanel.
setTimeWindow(w) ==
  /\ dashMounted
  /\ filters' = [filters EXCEPT !.timeWindow = w]
  /\ UNCHANGED <<dashMounted, accessData, generated, isPlaying, playbackSpeed,
                 currentTime, searchQuery, journeyPerspective, insights, loading,
                 pendingCalls, filteredData>>
  /\ UNCHANGED <<canvasVars, clock, flowVars>>

\* A discovery call that can start while another is in flight.
handleJourneyInsightWhileLoading(selectedPath) ==
  /\ dashMounted
  /\ Len(pendingCalls) < 2
  /\ loading' = TRUE
  /\ pendingCalls' = Append(pendingCalls, selectedPath)
  /\ UNCHANGED <<dashMounted, accessData, generated, isPlaying, playbackSpeed,
                 currentTime, searchQuery, filters, journeyPerspective, insights,
                 filteredData>>
  /\ UNCHANGED <<canvasVars, clock, flowVars>>

\* handleJourneyInsight up to its await: the discover Button is disabled
\* while loading.
handleJourneyInsight(selectedPath) ==
  /\ dashMounted
  /\ ~loading
  /\ loading' = TRUE
  /\ pendingCalls' = Append(pendingCalls, selectedPath)
  /\ UNCHANGED <<dashMounted, accessData, generated, isPlaying, playbackSpeed,
                 currentTime, searchQuery, filters, journeyPerspective, insights,
                 filteredData>>
  /\ UNCHANGED <<canvasVars, clock, flowVars>>

\* The two-second timeout of a call ends: setInsights, then setLoading(false).
InsightTimeout ==
  /\ pendingCalls # <<>>
  /\ insights' = JourneyInsight(Head(pendingCalls))
  /\ loading' = FALSE
  /\ pendingCalls' = Tail(pendingCalls)
  /\ UNCHANGED <<dashMounted, accessData, generated, isPlaying, playbackSpeed,
                 currentTime, searchQuery, filters, journeyPerspective,
                 filteredData>>
  /\ UNCHANGED <<canvasVars, clock, flowVars>>

\* Time passes.
ClockAdvance ==
  /\ clock < Clock0 + MaxDays * DayTicks
  /\ clock' = clock + DayTicks
  /\ UNCHANGED <<canvasVars, dashVars, flowVars>>

(***************************************************************************)
(* UserJourneyFlow, in its four sources:                                   *)
(*   "UserJourneyFlow.tsx"  the component the dashboard imports,           *)
(*   "SankeyDiagram.tsx"    the earlier copy kept in that file,            *)
(*   "part_006"             the copy that lists users only,                *)
(*   "part_003"             UserJourneyFlowNew.                            *)
(***************************************************************************)
FlowVariants == {"UserJourneyFlow.tsx", "SankeyDiagram.tsx", "part_006", "part_003"}

maxNodesVisible == 7

Perspectives == {"user-journey", "dataset-journey"}

Indices(d, p(_)) == {i \in 1..Len(d) : p(d[i])}

\* The values of a Map filled by forEach, keyed by datasetName.
GroupByDataset(d) ==
  LET names == Distinct([i \in 1..Len(d) |-> d[i].datasetName], <<>>)
  IN [k \in 1..Len(names) |->
        [name |-> names[k],
         users |-> {d[i].userName : i \in Indices(d, LAMBDA a : a.datasetName = names[k])},
         accesses |-> SelectSeq(d, LAMBDA a : a.datasetName = names[k])]]

\* The same with the id of the first access of each dataset.
GroupByDatasetWithId(d) ==
  LET names == Distinct([i \in 1..Len(d) |-> d[i].datasetName], <<>>)
  IN [k \in 1..Len(names) |->
        [name |-> names[k],
         id |-> SelectSeq(d, LAMBDA a : a.datasetName = names[k])[1].datasetId,
         users |-> {d[i].userName : i \in Indices(d, LAMBDA a : a.datasetName = names[k])},
         accesses |-> SelectSeq(d, LAMBDA a : a.datasetName = names[k])]]

\* The values of a Map filled by forEach, keyed by userName.
GroupByUser(d) ==
  LET names == Distinct([i \in 1..Len(d) |-> d[i].userName], <<>>)
  IN [k \in 1..Len(names) |->
        [name |-> names[k],
         datasets |-> {d[i].datasetName : i \in Indices(d, LAMBDA a : a.userName = names[k])},
         accesses |-> SelectSeq(d, LAMBDA a : a.userName = names[k])]]

\* uniqueEntities of UserJourneyFlow.tsx: both branches key by datasetName.
uniqueEntitiesTsx(d, persp) ==
  IF persp = "user-journey" THEN GroupByDatasetWithId(d) ELSE GroupByDataset(d)

\* uniqueEntities of the earlier copy.
uniqueEntitiesEarlier(d, persp) ==
  IF persp = "user-journey" THEN GroupByUser(d) ELSE GroupByDataset(d)

\* uniqueUsers of part_006 and uniqueDatasets of part_003.
uniqueUsers(d) == GroupByUser(d)

uniqueDatasets(d) == GroupByDataset(d)

UniqueEntities(variant, d, persp) ==
  CASE variant = "UserJourneyFlow.tsx" -> uniqueEntitiesTsx(d, persp)
    [] variant = "SankeyDiagram.tsx" -> uniqueEntitiesEarlier(d, persp)
    [] variant = "part_006" -> uniqueUsers(d)
    [] variant = "part_003" -> uniqueDatasets(d)

\* isSelectedEntity of UserJourneyFlow.tsx: both branches test datasetName.
isSelectedEntityTsx(access, sel, persp) ==
  IF persp = "user-journey" THEN access.datasetName \in sel
  ELSE access.datasetName \in sel

\* isSelectedEntity of the earlier copy and of UserJourneyFlowNew.
isSelectedEntityEarlier(access, sel, persp) ==
  IF persp = "user-journey" THEN access.userName \in sel
  ELSE access.datasetName \in sel

isSelectedEntityNew(access, sel, persp) ==
  IF persp = "user-journey" THEN access.userName \in sel
  ELSE access.datasetName \in sel

\* isSelectedUser of part_006.
isSelectedUser(access, sel) == access.userName \in sel

IsSelected(variant, access, sel, persp) ==
  CASE variant = "UserJourneyFlow.tsx" -> isSelectedEntityTsx(access, sel, persp)
    [] variant = "SankeyDiagram.tsx" -> isSelectedEntityEarlier(access, sel, persp)
    [] variant = "part_006" -> isSelectedUser(access, sel)
    [] variant = "part_003" -> isSelectedEntityNew(access, sel, persp)

\* A test that also takes the instant the bucket ends at.
isInTimeRangeClosed(accessTime, bucketStart, bucketEnd) ==
  accessTime >= bucketStart /\ accessTime <= bucketEnd

\* accessTime >= bucketStart && accessTime < bucketEnd
isInTimeRange(accessTime, bucketStart, bucketEnd) ==
  accessTime >= bucketStart /\ accessTime < bucketEnd

\* relevantAccesses of a bucket.
relevantAccesses(variant, d, sel, persp, bucketStart, bucketEnd) ==
  SelectSeq(d, LAMBDA access :
    /\ sel # {}
    /\ isInTimeRange(access.timestamp, bucketStart, bucketEnd)
    /\ IsSelected(variant, access, sel, persp))

\* One bucket of the hour-based timeBuckets, evaluated at clock time now:
\* bucketStart is hour o'clock of the day of now, bucketEnd the next hour.
\* start and end are the loop's bucketStart and bucketEnd.
HourBucket(variant, d, hr, sel, persp, now, i) ==
  LET hour == (HourOf(now) + hr + i) % 24
      bucketStart == DayStart(now) + hour * HourTicks
      bucketEnd == DayStart(now) + (hour + 1) * HourTicks
  IN [hour |-> hour, start |-> bucketStart, end |-> bucketEnd,
      accesses |-> relevantAccesses(variant, d, sel, persp, bucketStart, bucketEnd)]

timeBucketsByHour(variant, d, hr, sel, persp, now) ==
  [k \in 1..3 |-> HourBucket(variant, d, hr, sel, persp, now, k - 1)]

MinOf(S) == CHOOSE v \in S : \A w \in S : v <= w

MaxOf(S) == CHOOSE v \in S : \A w \in S : w <= v

Timestamps(d) == {d[i].timestamp : i \in 1..Len(d)}

\* One bucket of UserJourneyFlowNew.  With timeRange = maxTime - minTime,
\*   minTime + (currentHour / 23) * timeRange + i * (timeRange / 3)
\*     = minTime + timeRange * (3 * currentHour + 23 * i) / 69,
\* which new Date() truncates to a whole instant.
RangeBucket(d, hr, sel, persp, i) ==
  LET minTime == MinOf(Timestamps(d))
      maxTime == MaxOf(Timestamps(d))
      timeRange == maxTime - minTime
      bucketStart == minTime + (timeRange * (3 * hr + 23 * i)) \div 69
      bucketEnd == minTime + (timeRange * (3 * hr + 23 * (i + 1))) \div 69
  IN [id |-> i, start |-> bucketStart, end |-> bucketEnd,
      accesses |-> relevantAccesses("part_003", d, sel, persp, bucketStart, bucketEnd)]

timeBucketsNew(d, hr, sel, persp) ==
  IF Len(d) = 0 THEN <<>>
  ELSE [k \in 1..3 |-> RangeBucket(d, hr, sel, persp, k - 1)]

TimeBuckets(variant, d, hr, sel, persp, now) ==
  IF variant = "part_003" THEN timeBucketsNew(d, hr, sel, persp)
  ELSE timeBucketsByHour(variant, d, hr, sel, persp, now)

\* A component whose effect leaves an empty selection empty.
AutoSelectNever(variant, entities, sel) == sel

\* The auto-select effect (none in part_006): an empty selection becomes the
\* names of the first three entities.
AutoSelect(variant, entities, sel) ==
  IF variant # "part_006" /\ Len(entities) > 0 /\ sel = {}
  THEN {entities[k].name : k \in 1..Min(3, Len(entities))}
  ELSE sel

toggled(sel, entityName) ==
  IF entityName \in sel THEN sel \ {entityName} ELSE sel \cup {entityName}

(***************************************************************************)
(* TimelineCollapsibleTree and SankeyDiagram.                              *)
(***************************************************************************)
RECURSIVE SumSeq(_)
SumSeq(seq) == IF seq = <<>> THEN 0 ELSE Head(seq) + SumSeq(Tail(seq))

\* The record the tree reads: its DatasetAccess has user and dataset fields.
TreeAccess(a) ==
  [user |-> a.userName, dataset |-> a.datasetName, accessType |-> a.accessType,
   timestamp |-> a.timestamp, department |-> a.department]

TreeInput(d) == [i \in 1..Len(d) |-> TreeAccess(d[i])]

\* timeRange of the tree, evaluated at clock time now.
timeRange(d, now) ==
  IF Len(d) = 0 THEN [start |-> now, end |-> now]
  ELSE [start |-> MinOf(Timestamps(d)), end |-> MaxOf(Timestamps(d))]

\* A user leaf of the tree.
UserNode(filtered, dept, datasetKey, user, now) ==
  [id |-> <<datasetKey, user>>, name |-> user,
   data |-> [accessCount |->
               Len(SelectSeq(filtered, LAMBDA a :
                     a.user = user /\ <<a.department, a.dataset>> = datasetKey)),
             department |-> dept, lastAccess |-> now, users |-> <<user>>]]

\* A dataset node of the tree; datasetKey is `${department}-${dataset}`.
DatasetNode(filtered, dept, datasetKey, now) ==
  LET mine == SelectSeq(filtered, LAMBDA a : <<a.department, a.dataset>> = datasetKey)
      users == Distinct([i \in 1..Len(mine) |-> mine[i].user], <<>>)
  IN [id |-> datasetKey, name |-> datasetKey[2],
      data |-> [accessCount |-> Len(mine), department |-> dept,
                lastAccess |-> MaxOf(Timestamps(mine)), users |-> users],
      children |-> [u \in 1..Len(users) |->
                      UserNode(filtered, dept, datasetKey, users[u], now)]]

\* A department node of the tree.
DepartmentNode(filtered, dept, now) ==
  LET mine == SelectSeq(filtered, LAMBDA a : a.department = dept)
      keys == Distinct([i \in 1..Len(mine) |-> <<dept, mine[i].dataset>>], <<>>)
      datasets == [k \in 1..Len(keys) |-> DatasetNode(filtered, dept, keys[k], now)]
  IN [id |-> dept, name |-> dept,
      data |-> [accessCount |->
                  SumSeq([k \in 1..Len(keys) |-> Len(datasets[k].data.users)]),
                department |-> dept, lastAccess |-> now, users |-> <<>>],
      children |-> datasets]

\* generateTreeData at time position ct (0..100), evaluated at clock time now.
generateTreeData(d, ct, now) ==
  LET range == timeRange(d, now)
      endTime == range.start + (ct * (range.end - range.start)) \div 100
      filtered == SelectSeq(d, LAMBDA a : a.timestamp <= endTime)
      depts == Distinct([i \in 1..Len(filtered) |-> filtered[i].department], <<>>)
  IN [id |-> "root", name |-> "Data Access Tree",
      children |-> [k \in 1..Len(depts) |-> DepartmentNode(filtered, depts[k], now)]]

\* Array.sort by descending count (stable): x goes before the first entry
\* that does not count more.
RECURSIVE InsertByCount(_, _)
InsertByCount(x, sorted) ==
  IF sorted = <<>> THEN <<x>>
  ELSE IF sorted[1][2] <= x[2] THEN <<x>> \o sorted
       ELSE <<sorted[1]>> \o InsertByCount(x, Tail(sorted))

RECURSIVE SortByCount(_)
SortByCount(entries) ==
  IF entries = <<>> THEN <<>>
  ELSE InsertByCount(Head(entries), SortByCount(Tail(entries)))

\* sankeyData: the fifteen most frequent department -> type -> access flows.
sankeyDataOf(d) ==
  LET flow(a) == <<a.department, a.datasetType, a.accessType>>
      flows == Distinct([i \in 1..Len(d) |-> flow(d[i])], <<>>)
      entries == [k \in 1..Len(flows) |->
                    <<flows[k], Cardinality(Indices(d, LAMBDA a : flow(a) = flows[k]))>>]
      sorted == SortByCount(entries)
  IN SubSeq(sorted, 1, Min(15, Len(sorted)))

(***************************************************************************)
(* The data prop of the tree of part_005 is typed `any`.  A JavaScript     *)
(* value is a record of its type tag t, its payload (arr of an array, text *)
(* of a string, num of a number) and, one level deep, the values of the    *)
(* three fields the component reads; a field value carries no fields of    *)
(* its own.  An absent field reads as undefined.                           *)
(***************************************************************************)
Field(t, arr, text, num) == [t |-> t, arr |-> arr, text |-> text, num |-> num]

NoField == Field("undefined", <<>>, "", 0)

\* A field value as a value of its own.
Lift(f) ==
  [t |-> f.t, arr |-> f.arr, text |-> f.text, num |-> f.num,
   data |-> NoField, records |-> NoField, items |-> NoField]

Undefined == Lift(NoField)

Null == Lift(Field("null", <<>>, "", 0))

Num(n) == Lift(Field("number", <<>>, "", n))

Str(s) == Lift(Field("string", <<>>, s, 0))

Arr(seq) == Lift(Field("array", seq, "", 0))

Obj(dataField, records, items) ==
  [Lift(Field("object", <<>>, "", 0)) EXCEPT
     !.data = dataField, !.records = records, !.items = items]

\* The field values of the objects below.
FArr(seq) == Field("array", seq, "", 0)

FNum(n) == Field("number", <<>>, "", n)

FStr(s) == Field("string", <<>>, s, 0)

FObj == Field("object", <<>>, "", 0)

isArray(x) == x.t = "array"

\* ToBoolean of a value.
Truthy(x) ==
  CASE x.t \in {"undefined", "null"} -> FALSE
    [] x.t = "number" -> x.num # 0
    [] x.t = "string" -> x.text # ""
    [] OTHER -> TRUE

\* a || b
Or(a, b) == IF Truthy(a) THEN a ELSE b

\* x[field]: a TypeError on null and undefined (ok = FALSE), the field of
\* an object, undefined on a number, a string or an array.
Get(x, field) ==
  IF x.t \in {"undefined", "null"} THEN [ok |-> FALSE, value |-> Undefined]
  ELSE [ok |-> TRUE, value |-> Lift(x[field])]

\* The accesses of part_005: user, dataset, accessType, timestamp,
\* department, organization.
OrgAccess(user, dataset, accessType, timestamp, department, organization) ==
  [user |-> user, dataset |-> dataset, accessType |-> accessType,
   timestamp |-> timestamp, department |-> department,
   organization |-> organization]

T1 ==
  << OrgAccess("alice", "customer_data", "read", Clock0 + 2, "Engineering", "Acme"),
     OrgAccess("alice", "customer_data", "modify", Clock0 + 4, "Engineering", "Acme"),
     OrgAccess("bob", "customer_data", "read", Clock0 + 6, "Sales", "Globex") >>

T2 ==
  << OrgAccess("alice", "sales_reports", "read", Clock0 + 1, "Engineering", "Acme"),
     OrgAccess("alice", "sales_reports", "read", Clock0 + 3, "Engineering", "Acme") >>

\* JSON.parse of the texts the data prop takes: the value it returns, or a
\* SyntaxError (ok = FALSE).
JSONparse(text) ==
  CASE text = "[]" -> [ok |-> TRUE, value |-> Arr(<<>>)]
    [] text = "[T1]" -> [ok |-> TRUE, value |-> Arr(T1)]
    [] text = "{\"data\":[T2]}" -> [ok |-> TRUE, value |-> Obj(FArr(T2), NoField, NoField)]
    [] text = "{\"records\":[T1]}" ->
         [ok |-> TRUE, value |-> Obj(NoField, FArr(T1), NoField)]
    [] text = "{\"data\":5}" -> [ok |-> TRUE, value |-> Obj(FNum(5), NoField, NoField)]
    [] text = "{\"data\":{\"rows\":[T1]}}" ->
         [ok |-> TRUE, value |-> Obj(FObj, NoField, NoField)]
    [] text = "null" -> [ok |-> TRUE, value |-> Null]
    [] text = "5" -> [ok |-> TRUE, value |-> Num(5)]
    [] text = "\"T1\"" -> [ok |-> TRUE, value |-> Str("T1")]
    [] OTHER -> [ok |-> FALSE, value |-> Undefined]

\* The JSON texts of the data prop: [T1] and [T2] stand for the JSON of the
\* records T1 and T2; the last three do not parse.
JsonTexts ==
  {"[]", "[T1]", "{\"data\":[T2]}", "{\"records\":[T1]}", "{\"data\":5}",
   "{\"data\":{\"rows\":[T1]}}", "null", "5", "\"T1\"",
   "", "{data:[]}", "[T1"}

\* parsedData of part_005.
parsedDataOf(prop) ==
  IF isArray(prop) THEN prop
  ELSE IF prop.t = "string" THEN
    LET parsed == JSONparse(prop.text)
    IN IF ~parsed.ok THEN Arr(<<>>)
       ELSE IF isArray(parsed.value) THEN parsed.value
       ELSE LET field == Get(parsed.value, "data")
            IN IF ~field.ok THEN Arr(<<>>)
               ELSE Or(field.value, Arr(<<>>))
  ELSE IF Truthy(prop) /\ prop.t = "object" THEN
    Or(Lift(prop.data), Or(Lift(prop.records), Or(Lift(prop.items), Arr(<<>>))))
  ELSE Arr(<<>>)

\* The values of the data prop of part_005.
DataProps ==
  {Arr(<<>>), Arr(T1), Arr(T2), Null, Undefined, Num(5)}
    \cup {Str(text) : text \in JsonTexts}
    \cup {Obj(FArr(T1), NoField, NoField), Obj(NoField, FArr(T2), NoField),
          Obj(NoField, NoField, FArr(T1)), Obj(NoField, NoField, NoField),
          Obj(FArr(<<>>), FArr(T1), NoField), Obj(FStr("T1"), NoField, NoField),
          Obj(NoField, FObj, NoField)}

(***************************************************************************)
(* generateTreeData of part_005, for its two hierarchies.  Map keys are    *)
(* the strings the code concatenates.                                      *)
(***************************************************************************)
orgKeyOf(a) == a.dataset \o "-" \o a.organization

userKeyOf(a) == orgKeyOf(a) \o "-" \o a.user

accessTypeKeyOf(a) == userKeyOf(a) \o "-" \o a.accessType

platformKeyOf(a) == a.user \o "-" \o a.department

\* The keys of a Map in insertion order.
Keys(d, key(_)) == Distinct([i \in 1..Len(d) |-> key(d[i])], <<>>)

\* A leaf of the dataset hierarchy: one access type of one user.
AccessTypeNode(mine, example, now) ==
  LET typed == SelectSeq(mine, LAMBDA a : accessTypeKeyOf(a) = accessTypeKeyOf(example))
  IN [id |-> accessTypeKeyOf(example),
      name |-> example.accessType \o " (" \o ToString(Len(typed)) \o ")",
      data |-> [accessCount |-> Len(typed), department |-> example.organization,
                lastAccess |-> MaxOf(Timestamps(typed)),
                users |-> <<example.user>>]]

\* The first access of d with the given key.
First(d, key(_), k) == d[CHOOSE i \in 1..Len(d) :
                           key(d[i]) = k /\ \A j \in 1..(i - 1) : key(d[j]) # k]

OrgUserNode(mine, example, now) ==
  LET users == SelectSeq(mine, LAMBDA a : userKeyOf(a) = userKeyOf(example))
      types == Keys(users, accessTypeKeyOf)
      leaves == [k \in 1..Len(types) |->
                   AccessTypeNode(users, First(users, accessTypeKeyOf, types[k]), now)]
  IN [id |-> userKeyOf(example), name |-> "User: " \o example.user,
      data |-> [accessCount |->
                  SumSeq([k \in 1..Len(leaves) |-> leaves[k].data.accessCount]),
                department |-> example.organization, lastAccess |-> now,
                users |-> <<example.user>>],
      children |-> leaves]

OrgNode(mine, example, now) ==
  LET orgs == SelectSeq(mine, LAMBDA a : orgKeyOf(a) = orgKeyOf(example))
      keys == Keys(orgs, userKeyOf)
      users == [k \in 1..Len(keys) |->
                  OrgUserNode(orgs, First(orgs, userKeyOf, keys[k]), now)]
  IN [id |-> orgKeyOf(example), name |-> "Org: " \o example.organization,
      data |-> [accessCount |->
                  SumSeq([k \in 1..Len(users) |-> users[k].data.accessCount]),
                department |-> example.organization, lastAccess |-> now,
                users |-> <<>>],
      children |-> users]

OrgDatasetNode(filtered, dataset, now) ==
  LET mine == SelectSeq(filtered, LAMBDA a : a.dataset = dataset)
      keys == Keys(mine, orgKeyOf)
      orgs == [k \in 1..Len(keys) |->
                 OrgNode(mine, First(mine, orgKeyOf, keys[k]), now)]
  IN [id |-> dataset, name |-> "Dataset: " \o dataset,
      data |-> [accessCount |->
                  SumSeq([k \in 1..Len(orgs) |-> orgs[k].data.accessCount]),
                department |-> "Dataset", lastAccess |-> now, users |-> <<>>],
      children |-> orgs]

\* The dataset leaf of the user hierarchy.
PlatformDatasetNode(filtered, user, platformKey, platform, dataset, now) ==
  [id |-> platformKey \o "-" \o dataset, name |-> dataset,
   data |-> [accessCount |->
               Count(filtered, LAMBDA a : a.user = user /\ a.department = platform
                                          /\ a.dataset = dataset),
             department |-> platform, lastAccess |-> now, users |-> <<user>>]]

PlatformNode(filtered, mine, example, now) ==
  LET platformKey == platformKeyOf(example)
      platform == example.department
      here == SelectSeq(mine, LAMBDA a : platformKeyOf(a) = platformKey)
      datasets == Keys(here, LAMBDA a : a.dataset)
      counted == SelectSeq(filtered, LAMBDA a : platformKeyOf(a) = platformKey)
  IN [id |-> platformKey, name |-> platform,
      data |-> [accessCount |-> Len(counted), department |-> platform,
                lastAccess |-> MaxOf(Timestamps(counted)),
                users |-> <<example.user>>],
      children |-> [k \in 1..Len(datasets) |->
                      PlatformDatasetNode(filtered, example.user, platformKey,
                                          platform, datasets[k], now)]]

PlatformUserNode(filtered, user, now) ==
  LET mine == SelectSeq(filtered, LAMBDA a : a.user = user)
      keys == Keys(mine, platformKeyOf)
      platforms == [k \in 1..Len(keys) |->
                      PlatformNode(filtered, mine, First(mine, platformKeyOf, keys[k]), now)]
  IN [id |-> user, name |-> user,
      data |-> [accessCount |->
                  SumSeq([k \in 1..Len(platforms) |-> Len(platforms[k].children)]),
                department |-> "User", lastAccess |-> now, users |-> <<user>>],
      children |-> platforms]

Hierarchies == {"dataset-orgs-users", "user-platform-dataset"}

\* generateTreeData of part_005 on an array d.
generateTreeDataBy(hier, d, ct, now) ==
  LET range == timeRange(d, now)
      endTime == range.start + (ct * (range.end - range.start)) \div 100
      filtered == SelectSeq(d, LAMBDA a : a.timestamp <= endTime)
  IN IF hier = "dataset-orgs-users"
     THEN LET datasets == Keys(filtered, LAMBDA a : a.dataset)
          IN [id |-> "root", name |-> "Dataset Access Tree",
              children |-> [k \in 1..Len(datasets) |->
                              OrgDatasetNode(filtered, datasets[k], now)]]
     ELSE LET users == Keys(filtered, LAMBDA a : a.user)
          IN [id |-> "root", name |-> "User Access Tree",
              children |-> [k \in 1..Len(users) |->
                              PlatformUserNode(filtered, users[k], now)]]

(***************************************************************************)
(* The d3 hierarchy of the tree and its expand/collapse state.  A node is  *)
(* named by its path from the root: the positions of its ancestors and of  *)
(* itself among their siblings.  null and undefined children read as <<>>. *)
(***************************************************************************)
\* d3.hierarchy gives a node a children array when its datum has a
\* non-empty one.
HasKids(node) == "children" \in DOMAIN node /\ node.children # <<>>

RECURSIVE PathsOf(_, _)
PathsOf(node, path) ==
  {path} \cup
    (IF HasKids(node)
     THEN UNION {PathsOf(node.children[k], Append(path, k)) : k \in 1..Len(node.children)}
     ELSE {})

RECURSIVE NodeAt(_, _)
NodeAt(node, path) ==
  IF path = <<>> THEN node ELSE NodeAt(node.children[Head(path)], Tail(path))

\* d3.hierarchy(generateTreeData): every node expanded.
d3hierarchy(tree) ==
  [children |->
     [p \in PathsOf(tree, <<>>) |->
        LET node == NodeAt(tree, p)
        IN IF HasKids(node) THEN [k \in 1..Len(node.children) |-> Append(p, k)]
           ELSE <<>>],
   _children |-> [p \in PathsOf(tree, <<>>) |-> <<>>]]

RECURSIVE collapse(_, _), collapseEach(_, _)
collapse(h, d) ==
  IF h.children[d] # <<>>
  THEN LET moved == [h EXCEPT !._children[d] = h.children[d]]
           inner == collapseEach(moved, moved._children[d])
       IN [inner EXCEPT !.children[d] = <<>>]
  ELSE h

collapseEach(h, ds) ==
  IF ds = <<>> THEN h ELSE collapseEach(collapse(h, Head(ds)), Tail(ds))

\* The tree effect: a fresh hierarchy, collapsed below the first level.
treeEffect(tree) ==
  LET root == d3hierarchy(tree)
  IN IF root.children[<<>>] # <<>> THEN collapseEach(root, root.children[<<>>])
     ELSE root

\* The nodes on screen: the descendants of the root through children.
RECURSIVE descendants(_, _)
descendants(h, d) ==
  {d} \cup UNION {descendants(h, h.children[d][k]) : k \in 1..Len(h.children[d])}

\* A click whose expand branch keeps _children set.
toggleChildrenKeeping(h, d) ==
  IF h.children[d] # <<>>
  THEN [h EXCEPT !._children[d] = h.children[d], !.children[d] = <<>>]
  ELSE [h EXCEPT !.children[d] = h._children[d]]

\* Expand or collapse of click.
toggleChildren(h, d) ==
  IF h.children[d] # <<>>
  THEN [h EXCEPT !._children[d] = h.children[d], !.children[d] = <<>>]
  ELSE [h EXCEPT !.children[d] = h._children[d], !._children[d] = <<>>]

isOrgNode(component, hier, d) ==
  component = "part_005" /\ Len(d) = 2 /\ hier = "dataset-orgs-users"

\* The accesses an organisation click lists under a user node: those of
\* parsedData within timeRange whose user is the id of the node.
userAccessData(tree, d, userNode, now) ==
  LET range == timeRange(d, now)
  IN SelectSeq(d, LAMBDA item :
       /\ range.start <= item.timestamp /\ item.timestamp <= range.end
       /\ item.user = NodeAt(tree, userNode).id)

\* userNode.children = accessNodes.map(...): fresh nodes below the user.
RECURSIVE populate(_, _, _, _, _)
populate(h, tree, d, userNodes, now) ==
  IF userNodes = <<>> THEN h
  ELSE LET userNode == Head(userNodes)
           accessNodes == userAccessData(tree, d, userNode, now)
           fresh == [j \in 1..Len(accessNodes) |-> Append(userNode, 100 + j)]
           none == [p \in {fresh[j] : j \in 1..Len(fresh)} |-> <<>>]
           next == IF accessNodes = <<>> THEN h
                   ELSE [children |-> [h.children EXCEPT ![userNode] = fresh] @@ none,
                         _children |-> h._children @@ none]
       IN populate(next, tree, d, Tail(userNodes), now)

\* The organisation branch of click on node d, given whether it is checked.
orgClick(h, tree, d, org, isChecked, now) ==
  IF isChecked
  THEN IF h.children[org] # <<>>
       THEN [h EXCEPT !._children[org] = h.children[org], !.children[org] = <<>>]
       ELSE h
  ELSE IF h._children[org] # <<>>
       THEN LET shown == [h EXCEPT !.children[org] = h._children[org],
                                   !._children[org] = <<>>]
            IN populate(shown, tree, d, shown.children[org], now)
       ELSE h

(***************************************************************************)
(* The three views, mounted on one data prop.                              *)
(***************************************************************************)
F1 ==
  << Access(1, "user_0", "alice.johnson", "dataset_0", "customer_data", "table",
            "read", "Engineering", Clock0 + 10 * HourTicks),
     Access(2, "user_1", "bob.smith", "dataset_1", "sales_reports", "file",
            "write", "Sales", Clock0 + 10 * HourTicks + 1),
     Access(3, "user_0", "alice.johnson", "dataset_1", "sales_reports", "table",
            "read", "Engineering", Clock0 + 11 * HourTicks) >>

F2 ==
  << Access(4, "user_2", "carol.davis", "dataset_2", "inventory_db", "api",
            "execute", "Marketing", Clock0 + 23 * HourTicks + 1),
     Access(5, "user_1", "bob.smith", "dataset_0", "customer_data", "table",
            "read", "Sales", Clock0 + 1) >>

\* One user reading one dataset twice, as most of the 500 mock records do.
F3 ==
  << Access(6, "user_0", "alice.johnson", "dataset_0", "customer_data", "table",
            "read", "Engineering", Clock0 + 2 * HourTicks),
     Access(7, "user_0", "alice.johnson", "dataset_0", "customer_data", "table",
            "read", "Engineering", Clock0 + 3 * HourTicks) >>

FlowData == {<<>>, F1, F2}

\* Data with more entities than the list shows at once.
ManyEntities == 9

ManyAccesses ==
  [k \in 1..ManyEntities |->
     Access(10 + k, "user_" \o ToString(10 + k), "user." \o ToString(10 + k),
            "dataset_" \o ToString(10 + k), "data_" \o ToString(10 + k),
            "table", "read", "Engineering", Clock0 + 10 * HourTicks + k)]

ListData == {<<>>, SubSeq(ManyAccesses, 1, 4), ManyAccesses}

\* The user checks and unchecks among the first entities of the list.
MaxToggled == 3

\* The clock when the page opens: 10:30 and 22:30 of day 200.
FlowClocks == {Clock0 + 10 * HourTicks + 1, Clock0 + 22 * HourTicks + 1}

FlowHours == {0, 1, 23}

TreeTimes == {0, 100}

(***************************************************************************)
(* TimelineCollapsibleTree: renders, the tree effect and clicks.           *)
(***************************************************************************)
TreeComponents == {"TimelineCollapsibleTree.tsx", "part_005"}

\* The path no node has: no click yet.
NoClick == <<0>>

\* generateTreeData of the mounted source.
TreeDataOf(component, hier, d, ct, now) ==
  IF component = "part_005" THEN generateTreeDataBy(hier, d, ct, now)
  ELSE generateTreeData(d, ct, now)

\* timeRange calls parsedData.map and generateTreeData calls
\* parsedData.filter: a TypeError when parsedData is not an array.
renderThrows(pd) == ~isArray(pd)

\* A render of the tree with the given props and time position, and the
\* tree effect that follows it.
TreeRender(component, prop, hier, ct) ==
  /\ treeComponent' = component
  /\ dataProp' = prop
  /\ hierarchy' = hier
  /\ parsedData' = IF component = "part_005" THEN parsedDataOf(prop) ELSE prop
  /\ treeError' = renderThrows(parsedData')
  /\ treeTime' = ct
  /\ treeData' = IF treeError' THEN <<>>
                 ELSE TreeDataOf(component, hier, parsedData'.arr, ct, clock)
  /\ children' = IF treeError' THEN <<>> ELSE treeEffect(treeData').children
  /\ _children' = IF treeError' THEN <<>> ELSE treeEffect(treeData')._children
  /\ clicked' = NoClick
  /\ treeDirty' = FALSE

TreeLive == treeComponent # "none" /\ ~treeError /\ ~treeDirty

\* The props a parent passes to the tree of the given source.
TreeProps(component) ==
  IF component = "part_005" THEN DataProps
  ELSE {Arr(<<>>), Arr(TreeInput(F1)), Arr(TreeInput(F2)), Arr(TreeInput(F3))}

TreeHierarchies(component) ==
  IF component = "part_005" THEN Hierarchies ELSE {"department-dataset-user"}

TreeMount(component, prop, hier) ==
  /\ treeComponent = "none"
  /\ TreeRender(component, prop, hier, 0)
  /\ UNCHANGED checkedOrgs
  /\ UNCHANGED <<flowVariant, flowData, perspective, currentHour, selectedEntities,
                 uniqueEntities, timeBuckets, sankeyData, scrollOffset>>
  /\ UNCHANGED <<canvasVars, clock, dashVars>>

\* The parent passes another value of data.
TreeDataChange(prop) ==
  /\ TreeLive
  /\ prop # dataProp
  /\ TreeRender(treeComponent, prop, hierarchy, treeTime)
  /\ UNCHANGED checkedOrgs
  /\ UNCHANGED <<flowVariant, flowData, perspective, currentHour, selectedEntities,
                 uniqueEntities, timeBuckets, sankeyData, scrollOffset>>
  /\ UNCHANGED <<canvasVars, clock, dashVars>>

\* The parent passes the other hierarchy.
HierarchyChange(hier) ==
  /\ TreeLive
  /\ hier # hierarchy
  /\ TreeRender(treeComponent, dataProp, hier, treeTime)
  /\ UNCHANGED checkedOrgs
  /\ UNCHANGED <<flowVariant, flowData, perspective, currentHour, selectedEntities,
                 uniqueEntities, timeBuckets, sankeyData, scrollOffset>>
  /\ UNCHANGED <<canvasVars, clock, dashVars>>

\* A click on the node d on screen.
click(d) ==
  LET h == [children |-> children, _children |-> _children]
      id == NodeAt(treeData, d).id
      after == IF isOrgNode(treeComponent, hierarchy, d)
               THEN orgClick(h, treeData, parsedData.arr, d, id \in checkedOrgs, clock)
               ELSE toggleChildren(h, d)
  IN /\ TreeLive
     /\ d \in descendants(h, <<>>)
     /\ clicked' = d
     /\ children' = after.children
     /\ _children' = after._children
     /\ IF isOrgNode(treeComponent, hierarchy, d)
        THEN /\ checkedOrgs' = IF id \in checkedOrgs THEN checkedOrgs \ {id}
                               ELSE checkedOrgs \cup {id}
             /\ treeDirty' = TRUE
        ELSE UNCHANGED <<checkedOrgs, treeDirty>>
     /\ UNCHANGED <<treeComponent, dataProp, hierarchy, parsedData, treeError,
                    treeTime, treeData>>
     /\ UNCHANGED <<flowVariant, flowData, perspective, currentHour, selectedEntities,
                    uniqueEntities, timeBuckets, sankeyData, scrollOffset>>
     /\ UNCHANGED <<canvasVars, clock, dashVars>>

\* The tree effect runs again after setCheckedOrgs: checkedOrgs is one of
\* its dependencies.
TreeEffect ==
  /\ treeDirty
  /\ children' = treeEffect(treeData).children
  /\ _children' = treeEffect(treeData)._children
  /\ treeDirty' = FALSE
  /\ UNCHANGED <<treeComponent, dataProp, hierarchy, parsedData, treeError,
                 treeTime, treeData, checkedOrgs, clicked>>
  /\ UNCHANGED <<flowVariant, flowData, perspective, currentHour, selectedEntities,
                 uniqueEntities, timeBuckets, sankeyData, scrollOffset>>
  /\ UNCHANGED <<canvasVars, clock, dashVars>>

\* A render of the flow with the given props and state, the auto-select
\* effect that follows it, and the render the effect causes.
FlowRender(variant, d, persp, hr, sel) ==
  /\ flowVariant' = variant
  /\ flowData' = d
  /\ perspective' = persp
  /\ currentHour' = hr
  /\ uniqueEntities' = UniqueEntities(variant, d, persp)
  /\ selectedEntities' = AutoSelect(variant, uniqueEntities', sel)
  /\ timeBuckets' = TimeBuckets(variant, d, hr, selectedEntities', persp, clock)
  /\ UNCHANGED scrollOffset

FlowMount(variant, d, persp) ==
  /\ flowVariant = "none"
  /\ FlowRender(variant, d, persp, 0, {})
  /\ TreeRender("TimelineCollapsibleTree.tsx", Arr(TreeInput(d)),
                "department-dataset-user", 0)
  /\ UNCHANGED checkedOrgs
  /\ sankeyData' = sankeyDataOf(d)
  /\ UNCHANGED <<canvasVars, clock, dashVars>>

\* The parent passes another data array.
FlowDataChange(d) ==
  /\ flowVariant # "none"
  /\ d # flowData
  /\ FlowRender(flowVariant, d, perspective, currentHour, selectedEntities)
  /\ TreeRender("TimelineCollapsibleTree.tsx", Arr(TreeInput(d)),
                "department-dataset-user", treeTime)
  /\ sankeyData' = sankeyDataOf(d)
  /\ UNCHANGED checkedOrgs
  /\ UNCHANGED <<canvasVars, clock, dashVars>>

\* The parent passes the other perspective.
PerspectiveChange(persp) ==
  /\ flowVariant # "none"
  /\ persp # perspective
  /\ FlowRender(flowVariant, flowData, persp, currentHour, selectedEntities)
  /\ UNCHANGED <<treeTime, treeData, sankeyData, treeVars>>
  /\ UNCHANGED <<canvasVars, clock, dashVars>>

\* The hour Slider, the playback interval and handleReset.
setCurrentHour(hr) ==
  /\ flowVariant # "none"
  /\ hr # currentHour
  /\ FlowRender(flowVariant, flowData, perspective, hr, selectedEntities)
  /\ UNCHANGED <<treeTime, treeData, sankeyData, treeVars>>
  /\ UNCHANGED <<canvasVars, clock, dashVars>>

toggleEntitySelection(entityName) ==
  /\ flowVariant # "none"
  /\ \E k \in 1..Len(uniqueEntities) : uniqueEntities[k].name = entityName
  /\ FlowRender(flowVariant, flowData, perspective, currentHour,
                toggled(selectedEntities, entityName))
  /\ UNCHANGED <<treeTime, treeData, sankeyData, treeVars>>
  /\ UNCHANGED <<canvasVars, clock, dashVars>>

\* The scroll Buttons: in part_006 always rendered, in the other copies only
\* when the list is longer than maxNodesVisible; UserJourneyFlow.tsx binds
\* the handlers to no element.
scrollRendered ==
  /\ flowVariant \in {"SankeyDiagram.tsx", "part_003", "part_006"}
  /\ flowVariant = "part_006" \/ Len(uniqueEntities) > maxNodesVisible

canScrollUp == scrollOffset > 0

canScrollDown == scrollOffset < Len(uniqueEntities) - maxNodesVisible

\* setScrollOffset(prev => Math.max(0, prev - 1))
handleScrollUp ==
  /\ scrollRendered
  /\ canScrollUp
  /\ scrollOffset' = Max(0, scrollOffset - 1)
  /\ UNCHANGED <<flowVariant, flowData, perspective, currentHour, selectedEntities,
                 uniqueEntities, timeBuckets, treeTime, treeData, sankeyData, treeVars>>
  /\ UNCHANGED <<canvasVars, clock, dashVars>>

\* setScrollOffset(prev => Math.min(uniqueEntities.length - maxNodesVisible, prev + 1))
handleScrollDown ==
  /\ scrollRendered
  /\ canScrollDown
  /\ scrollOffset' = Min(Len(uniqueEntities) - maxNodesVisible, scrollOffset + 1)
  /\ UNCHANGED <<flowVariant, flowData, perspective, currentHour, selectedEntities,
                 uniqueEntities, timeBuckets, treeTime, treeData, sankeyData, treeVars>>
  /\ UNCHANGED <<canvasVars, clock, dashVars>>

\* uniqueEntities.slice(scrollOffset, scrollOffset + maxNodesVisible)
visibleEntities ==
  SubSeq(uniqueEntities, Min(scrollOffset, Len(uniqueEntities)) + 1,
         Min(scrollOffset + maxNodesVisible, Len(uniqueEntities)))

\* The time Slider of the tree.
handleScroll(ct) ==
  /\ TreeLive
  /\ ct # treeTime
  /\ TreeRender(treeComponent, dataProp, hierarchy, ct)
  /\ UNCHANGED checkedOrgs
  /\ UNCHANGED <<flowVariant, flowData, perspective, currentHour, selectedEntities,
                 uniqueEntities, timeBuckets, sankeyData, scrollOffset>>
  /\ UNCHANGED <<canvasVars, clock, dashVars>>

(***************************************************************************)
(* The ten-bucket UserJourneyFlow (the second source of the component in   *)
(* UserJourneyFlow.tsx).                                                   *)
(***************************************************************************)
TenBuckets == "UserJourneyFlow.tsx (ten buckets)"

\* [...data].sort by timestamp: a stable sort.
RECURSIVE InsertByTime(_, _)
InsertByTime(x, sorted) ==
  IF sorted = <<>> THEN <<x>>
  ELSE IF x.timestamp < sorted[1].timestamp THEN <<x>> \o sorted
       ELSE <<sorted[1]>> \o InsertByTime(x, Tail(sorted))

RECURSIVE SortByTime(_)
SortByTime(d) ==
  IF d = <<>> THEN <<>>
  ELSE InsertByTime(d[Len(d)], SortByTime(SubSeq(d, 1, Len(d) - 1)))

bucketCount == 10

\* bucketData.  The clock ticks are whole multiples of ten milliseconds, so
\* bucketDuration = (endTime - startTime) / 10 is exact; startTime and
\* endTime of a bucket are kept in tenths of a tick.
bucketData(d) ==
  IF Len(d) = 0 THEN <<>>
  ELSE LET sortedData == SortByTime(d)
           startTime == sortedData[1].timestamp
           endTime == sortedData[Len(sortedData)].timestamp
           bucketDuration == endTime - startTime
       IN [k \in 1..bucketCount |->
             LET bucketStart == bucketCount * startTime + (k - 1) * bucketDuration
                 bucketEnd == bucketStart + bucketDuration
             IN [startTime |-> bucketStart, endTime |-> bucketEnd,
                 accesses |-> SelectSeq(sortedData, LAMBDA access :
                                /\ bucketCount * access.timestamp >= bucketStart
                                /\ bucketCount * access.timestamp < bucketEnd)]]

\* The accesses the ten-bucket flow is given: lists of up to three of five
\* accesses.
TenAccesses ==
  { Access(1, "user_0", "alice.johnson", "dataset_0", "customer_data", "table",
           "read", "Engineering", Clock0),
    Access(2, "user_1", "bob.smith", "dataset_1", "sales_reports", "file",
           "write", "Sales", Clock0 + 1),
    Access(3, "user_0", "alice.johnson", "dataset_1", "sales_reports", "table",
           "read", "Engineering", Clock0 + 10),
    Access(4, "user_2", "carol.davis", "dataset_2", "inventory_db", "api",
           "execute", "Marketing", Clock0 + 20),
    Access(5, "user_1", "bob.smith", "dataset_0", "customer_data", "table",
           "read", "Sales", Clock0 + 20) }

TenData ==
  {<<>>} \cup {<<a>> : a \in TenAccesses}
    \cup {l \in {<<a, b>> : a \in TenAccesses, b \in TenAccesses} : l[1] # l[2]}
    \cup {l \in {<<a, b, c>> : a \in TenAccesses, b \in TenAccesses, c \in TenAccesses} :
            l[1] # l[2] /\ l[1] # l[3] /\ l[2] # l[3]}

TenMount(d) ==
  /\ flowVariant = "none"
  /\ flowVariant' = TenBuckets
  /\ flowData' = d
  /\ timeBuckets' = bucketData(d)
  /\ UNCHANGED <<perspective, currentHour, selectedEntities, uniqueEntities,
                 treeTime, treeData, sankeyData, treeVars, scrollOffset>>
  /\ UNCHANGED <<canvasVars, clock, dashVars>>

\* The parent passes another data array to the ten-bucket flow.
TenDataChange(d) ==
  /\ flowVariant = TenBuckets
  /\ d # flowData
  /\ flowData' = d
  /\ timeBuckets' = bucketData(d)
  /\ UNCHANGED <<flowVariant, perspective, currentHour, selectedEntities,
                 uniqueEntities, treeTime, treeData, sankeyData, treeVars,
                 scrollOffset>>
  /\ UNCHANGED <<canvasVars, clock, dashVars>>

\* The flow and tree components before their first render.
FlowIdle ==
  /\ flowVariant = "none"
  /\ flowData = <<>>
  /\ perspective = "user-journey"
  /\ currentHour = 0
  /\ selectedEntities = {}
  /\ uniqueEntities = <<>>
  /\ timeBuckets = <<>>
  /\ treeTime = 0
  /\ treeData = <<>>
  /\ sankeyData = <<>>
  /\ treeComponent = "none"
  /\ dataProp = Undefined
  /\ hierarchy = "dataset-orgs-users"
  /\ parsedData = Arr(<<>>)
  /\ treeError = FALSE
  /\ children = <<>>
  /\ _children = <<>>
  /\ checkedOrgs = {}
  /\ clicked = NoClick
  /\ treeDirty = FALSE
  /\ scrollOffset = 0

\* A canvas view before its first render.
CanvasIdle ==
  /\ mounted = FALSE
  /\ dirty = {}
  /\ rafPending = {}
  /\ animationRef = 0
  /\ closureNodes = <<>>
  /\ closureLive = TRUE
  /\ nodes = <<>>
  /\ particles = <<>>
  /\ fluidParticles = <<>>
  /\ neurons = <<>>
  /\ synapses = <<>>
  /\ mouseRef = [x |-> 0, y |-> 0]
  /\ ticks = 0
  /\ dataChanges = 0
  /\ mouseMoves = 0
  /\ justTicked = FALSE

(***************************************************************************)
(* Specifications.                                                         *)
(***************************************************************************)
LoopInit ==
  /\ view \in Views
  /\ canvasRef \in {"null", "noctx", "ok"}
  /\ rect \in Rects
  /\ data \in LoopData
  /\ CanvasIdle
  /\ clock = Clock0
  /\ DashIdle
  /\ FlowIdle

LoopNext ==
  \/ Mount
  \/ \E d \in LoopData : DataChange(d)
  \/ Render
  \/ \E handle \in rafPending : Tick(handle)
  \/ Unmount

\* The effects and the animation loop of a canvas view.
LoopSpec == LoopInit /\ [][LoopNext]_vars

PhysicsInit ==
  /\ view \in Views
  /\ canvasRef = "ok"
  /\ rect \in Rects
  /\ data \in CanvasData
  /\ CanvasIdle
  /\ clock = Clock0
  /\ DashIdle
  /\ FlowIdle

PhysicsNext ==
  \/ Mount
  \/ Render
  \/ \E p \in MousePoints : MouseMove(p)
  \/ \E handle \in rafPending : Tick(handle)

\* The physics of a canvas view with a drawing context, under a moving pointer.
PhysicsSpec == PhysicsInit /\ [][PhysicsNext]_vars

DashQueries == {<<>>, <<"s", "a", "l", "e", "s">>}

DashPaths == Paths \ {<<>>}

DashInit ==
  /\ view = "topo"
  /\ canvasRef = "null"
  /\ rect \in Rects
  /\ data = <<>>
  /\ CanvasIdle
  /\ clock = Clock0
  /\ DashIdle
  /\ FlowIdle

DashNext ==
  \/ \E picks \in MockDraws : DashMount(picks)
  \/ handlePlayPause
  \/ handleReset
  \/ PlaybackTick
  \/ \E value \in SliderValues : SliderMove(value)
  \/ \E speed \in Speeds : setPlaybackSpeed(speed)
  \/ \E query \in DashQueries : setSearchQuery(query)
  \/ \E p \in {"user-journey", "dataset-journey"} : setJourneyPerspective(p)
  \/ \E selectedPath \in DashPaths : handleJourneyInsight(selectedPath)
  \/ InsightTimeout

\* The dashboard under playback, search, perspective and journey discovery.
DashSpec == DashInit /\ [][DashNext]_vars

FilterNext ==
  \/ \E picks \in MockDraws : DashMount(picks)
  \/ \E category \in {"departments", "datasetTypes", "accessTypes"} :
       \E value \in Range(DepartmentNames) \cup Range(DatasetTypes) \cup Range(AccessTypes) :
         FilterClick(category, value)
  \/ clearFilters
  \/ \E w \in {"day", "week"} : setTimeWindow(w)
  \/ \E query \in Queries : setSearchQuery(query)
  \/ \E value \in SliderValues : SliderMove(value)
  \/ ClockAdvance

\* The dashboard under its search panel and timeline slider.
FilterSpec == DashInit /\ [][FilterNext]_vars

\* Playback with no user action while it runs: the user sets the position
\* and the speed and starts the playback, then only the interval fires.
PlaybackNext ==
  \/ \E picks \in MockDraws : DashMount(picks)
  \/ ~isPlaying /\ \E value \in SliderValues : SliderMove(value)
  \/ ~isPlaying /\ \E speed \in Speeds : setPlaybackSpeed(speed)
  \/ ~isPlaying /\ handlePlayPause
  \/ PlaybackTick

\* setInterval keeps firing while the playback effect holds the interval.
PlaybackSpec == DashInit /\ [][PlaybackNext]_vars /\ WF_vars(PlaybackTick)

InsightNext ==
  \/ \E picks \in MockDraws : DashMount(picks)
  \/ \E selectedPath \in DashPaths : handleJourneyInsight(selectedPath)
  \/ InsightTimeout
  \/ \E value \in SliderValues : SliderMove(value)
  \/ \E speed \in Speeds : setPlaybackSpeed(speed)
  \/ \E p \in {"user-journey", "dataset-journey"} : setJourneyPerspective(p)

\* Journey discovery: the timeout of a call that was started ends.
InsightSpec == DashInit /\ [][InsightNext]_vars /\ WF_vars(InsightTimeout)

FlowInit ==
  /\ view = "topo"
  /\ canvasRef = "null"
  /\ rect \in Rects
  /\ data = <<>>
  /\ CanvasIdle
  /\ clock \in FlowClocks
  /\ DashIdle
  /\ FlowIdle

FlowNext ==
  \/ \E variant \in FlowVariants, d \in FlowData, persp \in Perspectives :
       FlowMount(variant, d, persp)
  \/ \E d \in FlowData : FlowDataChange(d)
  \/ \E persp \in Perspectives : PerspectiveChange(persp)
  \/ \E hr \in FlowHours : setCurrentHour(hr)
  \/ \E entityName \in Range(Users) \cup Range(Datasets) : toggleEntitySelection(entityName)
  \/ \E ct \in TreeTimes : handleScroll(ct)
  \/ ClockAdvance

\* The aggregating views under data, perspective, selection and time changes.
FlowSpec == FlowInit /\ [][FlowNext]_vars

\* The nodes a click can name: paths of depth at most four.
ClickPaths ==
  {<<>>} \cup {<<a>> : a \in 1..2} \cup {<<a, b>> : a, b \in 1..2}
    \cup {<<a, b, c>> : a, b, c \in 1..2}
    \cup {<<a, b, c, e>> : a, b, c, e \in 1..2}

TreeInit == FlowInit

TreeNext ==
  \/ \E component \in TreeComponents :
       \E prop \in TreeProps(component), hier \in TreeHierarchies(component) :
         TreeMount(component, prop, hier)
  \/ \E prop \in TreeProps(treeComponent) : TreeDataChange(prop)
  \/ \E hier \in TreeHierarchies(treeComponent) : HierarchyChange(hier)
  \/ \E ct \in TreeTimes : handleScroll(ct)
  \/ \E d \in ClickPaths : click(d)
  \/ TreeEffect

\* TimelineCollapsibleTree under prop changes, time scrolling and clicks.
TreeSpec == TreeInit /\ [][TreeNext]_vars

TenNext ==
  \/ \E d \in TenData : TenMount(d)
  \/ \E d \in TenData : TenDataChange(d)

\* The ten-bucket UserJourneyFlow under data changes.
TenSpec == FlowInit /\ [][TenNext]_vars

ListInit == FlowInit /\ clock = Clock0 + 10 * HourTicks + 1

ListNext ==
  \/ \E variant \in FlowVariants, d \in ListData, persp \in Perspectives :
       FlowMount(variant, d, persp)
  \/ \E d \in ListData : FlowDataChange(d)
  \/ \E persp \in Perspectives : PerspectiveChange(persp)
  \/ \E k \in 1..Min(MaxToggled, Len(uniqueEntities)) :
       toggleEntitySelection(uniqueEntities[k].name)
  \/ handleScrollUp
  \/ handleScrollDown

\* The entity list of the flow under data, perspective, selection and scroll.
ListSpec == ListInit /\ [][ListNext]_vars

(***************************************************************************)
(* Claims about the canvas views.                                          *)
(***************************************************************************)
\* A position inside the canvas rectangle: 0 <= x <= width, 0 <= y <= height.
OnScreen(b) ==
  /\ ~IsNaN(b.x) /\ ~IsNaN(b.y)
  /\ 0 <= b.x /\ b.x <= rect.width * Scale
  /\ 0 <= b.y /\ b.y <= rect.height * Scale

AllOnScreen(bodies) == \A i \in 1..Len(bodies) : OnScreen(bodies[i])

\* C1: after every animation tick every simulated body (graph node, neuron,
\* flow particle, fluid particle) has a position inside the canvas rectangle.
C1_BodiesStayOnScreen ==
  justTicked =>
    /\ AllOnScreen(nodes)
    /\ AllOnScreen(neurons)
    /\ AllOnScreen(particles)
    /\ AllOnScreen(fluidParticles)

\* C2: when the canvas element or its 2D context is unavailable, the setup
\* effect and the animation effect return at once: no animation frame is
\* requested and no simulation state is set.
C2_NoCanvasNoEffect ==
  canvasRef # "ok" =>
    /\ rafPending = {}
    /\ animationRef = 0
    /\ dirty = {}
    /\ nodes = <<>> /\ particles = <<>> /\ fluidParticles = <<>>
    /\ neurons = <<>> /\ synapses = <<>>

\* C2 witness: a view without a drawing context has mounted and has been
\* handed a second, non-empty data array.
C2_Witness ==
  /\ canvasRef = "noctx"
  /\ mounted
  /\ dataChanges > 0
  /\ data # <<>>
  /\ view = "galaxy"

\* C9: a mounted canvas view has at most one animation-frame callback
\* pending, across the renders its ticks and its data cause; once it has
\* unmounted none is pending, so no further tick runs.
C9_SingleAnimationLoop ==
  /\ Cardinality(rafPending) <= 1
  /\ ~mounted => rafPending = {}

\* C9 witness: a view that ticked, was handed new data, rendered again and
\* then unmounted.
C9_Witness ==
  /\ ~mounted
  /\ ticks >= 2
  /\ dataChanges > 0
  /\ animationRef # 0

(***************************************************************************)
(* Claims about the dashboard.                                             *)
(***************************************************************************)
\* C3: once the mount effect has generated the access records, accessData
\* never changes and generateMockData never runs again, whatever the user
\* does (play, pause, reset, playback tick, slider, speed, search,
\* perspective, journey discovery).
C3_AccessDataFixed ==
  [][dashMounted => accessData' = accessData /\ generated' = generated]_vars

\* C3 witness: a mounted dashboard whose records were generated once, after
\* playback ran at another speed under a search, the other perspective and a
\* completed discovery.
C3_Witness ==
  /\ dashMounted
  /\ generated = 1
  /\ accessData # <<>>
  /\ isPlaying
  /\ currentTime > 50 * Quarters /\ currentTime % Quarters # 0
  /\ playbackSpeed # 2
  /\ searchQuery # <<>>
  /\ journeyPerspective = "dataset-journey"
  /\ insights # <<>>

\* C8: when a journey-discovery call completes, insights becomes the fixed
\* list of journey_1 and journey_2, the same for every path the call could
\* have been given, whatever insights held before.
C8_StaticInsights ==
  [][Len(pendingCalls') < Len(pendingCalls) =>
       /\ Len(insights') = 2
       /\ insights'[1].id = "journey_1"
       /\ insights'[2].id = "journey_2"
       /\ \A selectedPath \in Paths : insights' = JourneyInsight(selectedPath)]_vars

\* C8 witness: a second discovery, for another path, is in flight while the
\* insights of a completed one are held.
C8_Witness ==
  /\ insights = mockInsights
  /\ loading
  /\ pendingCalls = << <<"inventory_db">> >>

\* C10: whenever a filter list (departments, datasetTypes, accessTypes) is
\* non-empty, every event of filteredData has its field in that list.
C10_FilteredByFilters ==
  \A i \in 1..Len(filteredData) :
    /\ filters.departments # <<>> =>
         Contains(filters.departments, filteredData[i].department)
    /\ filters.datasetTypes # <<>> =>
         Contains(filters.datasetTypes, filteredData[i].datasetType)
    /\ filters.accessTypes # <<>> =>
         Contains(filters.accessTypes, filteredData[i].accessType)

(***************************************************************************)
(* Claims about the aggregating views.                                     *)
(***************************************************************************)
\* What a bucket list shows: the label and the accesses of each bucket.
Displayed(buckets) ==
  [k \in 1..Len(buckets) |->
     [label |-> IF "hour" \in DOMAIN buckets[k] THEN buckets[k].hour ELSE buckets[k].id,
      accesses |-> buckets[k].accesses]]

\* C4: every aggregator is a pure function of its declared inputs: evaluated
\* on the data, time position, selection and perspective it was last
\* evaluated on, at whatever wall-clock time, the time-bucket builder, the
\* tree builder and the Sankey flow counter return the result they returned.
C4_AggregatorsPure ==
  flowVariant # "none" =>
    \A now \in FlowClocks \cup {clock} :
      /\ Displayed(TimeBuckets(flowVariant, flowData, currentHour, selectedEntities,
                               perspective, now)) = Displayed(timeBuckets)
      /\ generateTreeData(TreeInput(flowData), treeTime, now) = treeData
      /\ sankeyDataOf(flowData) = sankeyData

\* C5: in UserJourneyFlow the perspective selects the grouping axis: the
\* entities are the distinct userName values under 'user-journey' and the
\* distinct datasetName values under 'dataset-journey', and a bucket keeps
\* an event of its hour exactly when the event's name on that axis is
\* selected.
C5_PerspectiveSelectsAxis ==
  flowVariant \in {"UserJourneyFlow.tsx", "SankeyDiagram.tsx"} =>
    LET axis(a) == IF perspective = "user-journey" THEN a.userName ELSE a.datasetName
    IN /\ {uniqueEntities[k].name : k \in 1..Len(uniqueEntities)}
            = {axis(flowData[i]) : i \in 1..Len(flowData)}
       /\ \A k \in 1..Len(timeBuckets), i \in 1..Len(flowData) :
            (/\ timeBuckets[k].start <= flowData[i].timestamp
             /\ flowData[i].timestamp < timeBuckets[k].end)
            => (flowData[i] \in Range(timeBuckets[k].accesses)
                  <=> axis(flowData[i]) \in selectedEntities)

\* C6: in UserJourneyFlowNew, for non-empty data and every slider position,
\* each of the three buckets lies within the observed time range:
\* min timestamp <= bucketStart and bucketEnd <= max timestamp.
C6_BucketsWithinObservedRange ==
  (flowVariant = "part_003" /\ flowData # <<>>) =>
    /\ Len(timeBuckets) = 3
    /\ \A k \in 1..Len(timeBuckets) :
         /\ MinOf(Timestamps(flowData)) <= timeBuckets[k].start
         /\ timeBuckets[k].end <= MaxOf(Timestamps(flowData))

\* The name of the entity that lists the access among its accesses.
EntityOf(access) ==
  uniqueEntities[CHOOSE k \in 1..Len(uniqueEntities) :
                   access \in Range(uniqueEntities[k].accesses)].name

\* C7: in UserJourneyFlow each displayed bucket holds exactly the events of
\* data whose timestamp t satisfies bucketStart <= t < bucketEnd and whose
\* grouping entity (the entity the component lists the event under) is
\* selected; with no entity selected every bucket is empty.
C7_BucketContents ==
  flowVariant \in {"UserJourneyFlow.tsx", "SankeyDiagram.tsx", "part_006"} =>
    \A k \in 1..Len(timeBuckets) :
      LET b == timeBuckets[k]
          wanted == {i \in 1..Len(flowData) :
                       /\ b.start <= flowData[i].timestamp
                       /\ flowData[i].timestamp < b.end
                       /\ EntityOf(flowData[i]) \in selectedEntities}
      IN /\ Len(b.accesses) = Cardinality(wanted)
         /\ Range(b.accesses) = {flowData[i] : i \in wanted}
         /\ selectedEntities = {} => b.accesses = <<>>

\* C7 witness: the imported UserJourneyFlow shows a bucket that holds an
\* event and leaves out an event of the same hour whose entity is not
\* selected.
C7_Witness ==
  /\ flowVariant = "UserJourneyFlow.tsx"
  /\ \E k \in 1..Len(timeBuckets) :
       /\ timeBuckets[k].accesses # <<>>
       /\ \E i \in 1..Len(flowData) :
            /\ timeBuckets[k].start <= flowData[i].timestamp
            /\ flowData[i].timestamp < timeBuckets[k].end
            /\ EntityOf(flowData[i]) \notin selectedEntities

(***************************************************************************)
(* Claims about TimelineCollapsibleTree.                                   *)
(***************************************************************************)
\* No node holds a non-empty children list and a non-empty _children list.
NeverBoth ==
  \A d \in DOMAIN children : children[d] = <<>> \/ _children[d] = <<>>

\* A step that is a click on a node that is not an organisation checkbox.
NonOrgClick ==
  /\ TreeLive
  /\ clicked' # NoClick
  /\ ~isOrgNode(treeComponent, hierarchy, clicked')

C12_ParsedDataIsArray ==
  treeComponent = "part_005" =>
    /\ isArray(parsedData)
    /\ (dataProp.t = "string" /\ ~JSONparse(dataProp.text).ok) => parsedData = Arr(<<>>)
    /\ ~treeError

(***************************************************************************)
(* Claims about the flows, the playback and the insights panel.            *)
(***************************************************************************)
\* C13: in the ten-bucket UserJourneyFlow bucketData partitions the events:
\* for non-empty data every event of data is in the accesses of exactly one
\* of the ten buckets, so the bucket sizes sum to data.length.
C13_BucketsPartition ==
  (flowVariant = TenBuckets /\ flowData # <<>>) =>
    /\ Len(timeBuckets) = bucketCount
    /\ \A i \in 1..Len(flowData) :
         Cardinality({k \in 1..Len(timeBuckets) :
                        flowData[i] \in Range(timeBuckets[k].accesses)}) = 1
    /\ SumSeq([k \in 1..Len(timeBuckets) |-> Len(timeBuckets[k].accesses)])
         = Len(flowData)

\* C14: under every interleaving of play, pause, reset, timer tick, slider
\* move to an integer 0..100 and speed change among 0.5, 1, 2 and 5 the
\* timeline position satisfies 0 <= currentTime <= 100.
C14_TimeWithinBounds ==
  0 <= currentTime /\ currentTime <= 100 * Quarters

\* C15: once the playback is started and the interval keeps firing with no
\* user action, eventually currentTime = 100 and isPlaying = false; a
\* stopped playback has no tick, so currentTime stays where it is.
C15_PlaybackTerminates ==
  /\ isPlaying ~> (currentTime = 100 * Quarters /\ ~isPlaying)
  /\ [][~isPlaying => ~PlaybackTick]_vars
  /\ [][(isPlaying /\ ~isPlaying') => currentTime' = 100 * Quarters]_vars

\* C15 witness: the playback has run at half speed up to 99.75.
C15_Witness ==
  isPlaying /\ playbackSpeed = 1 /\ currentTime = 100 * Quarters - 1

\* The timeline positions compared by C16.
TimePositions == {0, 1, 50, 70, 71, 80, 90, 99, 100}

\* C16: for fixed data, search query and present time the time filter is
\* monotone in the timeline position: for positions t1 <= t2 every event
\* of filteredData at t1 is in filteredData at t2.
C16_TimeFilterMonotone ==
  dashMounted =>
    \A t1, t2 \in TimePositions :
      t1 <= t2 =>
        Range(FilteredData(accessData, t1 * Quarters, searchQuery, clock))
          \subseteq Range(FilteredData(accessData, t2 * Quarters, searchQuery, clock))

\* C17: loading is true exactly while a journey-discovery call is in
\* flight: it becomes true when handleJourneyInsight starts, it becomes
\* false when the timeout ends and insights is set, it is never left true
\* forever, and at most one call is in flight.
C17_LoadingWhileInFlight ==
  /\ [](loading <=> pendingCalls # <<>>)
  /\ [](Len(pendingCalls) <= 1)
  /\ [][(~loading /\ loading') => pendingCalls' # pendingCalls]_vars
  /\ [][(loading /\ ~loading') => insights' = mockInsights /\ pendingCalls' = <<>>]_vars
  /\ loading ~> ~loading

\* C17 witness: the first discovery call is in flight.
C17_Witness ==
  loading /\ Len(pendingCalls) = 1 /\ insights = <<>>

\* The copies of UserJourneyFlow that have the auto-select effect.
AutoVariants == {"UserJourneyFlow.tsx", "SankeyDiagram.tsx", "part_003"}

EntityNames == {uniqueEntities[k].name : k \in 1..Len(uniqueEntities)}

FirstNames(entities) == {entities[k].name : k \in 1..Min(3, Len(entities))}

\* C18: in UserJourneyFlow, whenever there is at least one entity and the
\* selection is empty (at mount, after a data change, after the user
\* unchecks the last selected entity) the selection becomes the names of
\* the first min(3, n) entities; so with entities present the selection of
\* a settled state is never empty.
C18_AutoSelection ==
  /\ [](flowVariant \in AutoVariants /\ uniqueEntities # <<>> => selectedEntities # {})
  /\ [][(flowVariant' \in AutoVariants /\ selectedEntities = {} /\ uniqueEntities' # <<>>)
          => selectedEntities' = FirstNames(uniqueEntities')]_vars
  /\ [][\A e \in EntityNames :
          (flowVariant \in AutoVariants /\ selectedEntities = {e}
             /\ toggleEntitySelection(e))
          => selectedEntities' = FirstNames(uniqueEntities)]_vars

\* C18 witness: nine entities, the first three of them selected by the effect.
C18_Witness ==
  /\ flowVariant \in AutoVariants
  /\ Len(uniqueEntities) = ManyEntities
  /\ selectedEntities = FirstNames(uniqueEntities)
  /\ Cardinality(selectedEntities) = 3

\* C19: in UserJourneyFlow every selected name is the name of a current
\* entity, also after the data prop changes and after the perspective is
\* switched.
C19_SelectionWithinEntities ==
  flowVariant # "none" => selectedEntities \subseteq EntityNames

\* C20: in the entity list 0 <= scrollOffset <= max(0, n - 7) for the
\* current number n of entities, also after n shrinks with the data, so
\* the visible window shows min(7, n) entities.
C20_ScrollWithinBounds ==
  flowVariant # "none" =>
    /\ 0 <= scrollOffset
    /\ scrollOffset <= Max(0, Len(uniqueEntities) - maxNodesVisible)
    /\ Len(visibleEntities) = Min(maxNodesVisible, Len(uniqueEntities))

(***************************************************************************)
(* Claims about the counts of the tree.                                    *)
(***************************************************************************)
\* The events grouped under a node: the counts of the leaves below it, each
\* of which counts the filtered events of its own group.
RECURSIVE LeafSum(_)
LeafSum(node) ==
  IF "children" \in DOMAIN node
  THEN SumSeq([k \in 1..Len(node.children) |-> LeafSum(node.children[k])])
  ELSE node.data.accessCount

RECURSIVE CountsAddUp(_)
CountsAddUp(node) ==
  "children" \in DOMAIN node =>
    /\ node.data.accessCount = LeafSum(node)
    /\ node.data.accessCount =
         SumSeq([k \in 1..Len(node.children) |-> node.children[k].data.accessCount])
    /\ \A k \in 1..Len(node.children) : CountsAddUp(node.children[k])

\* C21: in the tree built by TimelineCollapsibleTree every non-root node's
\* accessCount is the number of time-filtered events grouped under the node
\* and so the sum of its children's accessCount, in the
\* department-dataset-user tree and in both hierarchies of part_005.
C21_CountsAreSums ==
  (TreeLive /\ treeData # <<>>) =>
    \A k \in 1..Len(treeData.children) : CountsAddUp(treeData.children[k])

====
